---------------------------- MODULE Spec2Model ----------------------------
(***************************************************************************)
(* The ATS analyzer of apps/resumes (ats_analyzer.py) and the view that    *)
(* runs it (views.py, ats_analyze).                                        *)
(*                                                                         *)
(* A text is a sequence of one-character strings, so that the regular      *)
(* expressions, str.split, str.lower, the substring test and str.join of   *)
(* the source are computed character by character.  A Python dict is the   *)
(* sequence of its <<key, value>> pairs in insertion order.                *)
(***************************************************************************)
EXTENDS Integers, Sequences, FiniteSets, TLC

VARIABLES
    Resume,           \* the Resume row, with its related rows
    ATSAnalysis,      \* the ATSAnalysis table, rows in creation order
    request,          \* the job description of the last analyze() call
    frame,            \* the local variables of the last analyze() call
    report,           \* the value of the last get_detailed_report() call
    clock,            \* timezone.now()
    args,             \* the arguments of a direct call of one method
    ret               \* the value that call returned

vars == <<Resume, ATSAnalysis, request, frame, report, clock, args, ret>>

-----------------------------------------------------------------------------
(* Characters.                                                             *)

Lower ==
    {"a","b","c","d","e","f","g","h","i","j","k","l","m",
     "n","o","p","q","r","s","t","u","v","w","x","y","z"}

Upper ==
    {"A","B","C","D","E","F","G","H","I","J","K","L","M",
     "N","O","P","Q","R","S","T","U","V","W","X","Y","Z"}

LowerOf ==
    [A |-> "a", B |-> "b", C |-> "c", D |-> "d", E |-> "e", F |-> "f", G |-> "g",
     H |-> "h", I |-> "i", J |-> "j", K |-> "k", L |-> "l", M |-> "m", N |-> "n",
     O |-> "o", P |-> "p", Q |-> "q", R |-> "r", S |-> "s", T |-> "t", U |-> "u",
     V |-> "v", W |-> "w", X |-> "x", Y |-> "y", Z |-> "z"]

Digits == {"0","1","2","3","4","5","6","7","8","9"}

\* \w of a str pattern: letters, digits and the underscore
WordChars == Lower \cup Upper \cup Digits \cup {"_"}

\* what str.split() splits on
Whitespace == {" ", "\t", "\n"}

\* the class [.!?] of calculate_readability
Terminators == {".", "!", "?"}

EmptyText == <<>>

\* Python's None in a text attribute: a value that is no text (a text holds
\* one-character strings only)
None == <<"None">>

\* not x, for x a str or None
falsy(text) == text \in {EmptyText, None}

\* str.lower()
lower(text) ==
    LET chars == [i \in DOMAIN text |->
                    IF text[i] \in Upper THEN LowerOf[text[i]] ELSE text[i]]
    IN  SubSeq(chars, 1, Len(text))

\* s[:n] of a list or a string
Take(s, n) == SubSeq(s, 1, IF Len(s) < n THEN Len(s) ELSE n)

\* sep.join(parts)
RECURSIVE join(_, _)
join(sep, parts) ==
    IF parts = <<>> THEN <<>>
    ELSE IF Len(parts) = 1 THEN parts[1]
    ELSE parts[1] \o sep \o join(sep, Tail(parts))

\* filter(None, parts): drops the empty strings and the None entries
filter_none(parts) == SelectSeq(parts, LAMBDA part : ~falsy(part))

\* \b at the gap before position p (1 .. Len(text)+1)
IsWordBoundary(text, p) ==
    ((p > 1) /\ (text[p - 1] \in WordChars)) # ((p <= Len(text)) /\ (text[p] \in WordChars))

\* (mutant) the needle must stand between two word boundaries
contains_word(haystack, needle) ==
    \E i \in 1..(Len(haystack) - Len(needle) + 1) :
        /\ SubSeq(haystack, i, i + Len(needle) - 1) = needle
        /\ IsWordBoundary(haystack, i)
        /\ IsWordBoundary(haystack, i + Len(needle))

\* needle in haystack, for two strings
contains(haystack, needle) ==
    \E i \in 1..(Len(haystack) - Len(needle) + 1) :
        SubSeq(haystack, i, i + Len(needle) - 1) = needle

\* the members of a set of positions of a sequence s, in ascending order
Ascending(S, s) == SelectSeq([i \in DOMAIN s |-> i], LAMBDA i : i \in S)

\* str.split(): the maximal runs of non-whitespace characters, left to right
split(text) ==
    LET starts == {i \in DOMAIN text :
                      text[i] \notin Whitespace /\ (i = 1 \/ text[i - 1] \in Whitespace)}
        ends   == {j \in DOMAIN text :
                      text[j] \notin Whitespace /\ (j = Len(text) \/ text[j + 1] \in Whitespace)}
        s      == Ascending(starts, text)
        e      == Ascending(ends, text)
    IN  [k \in DOMAIN s |-> SubSeq(text, s[k], e[k])]

-----------------------------------------------------------------------------
(* ATSAnalyzer.__init__: the stop words.                                   *)

stop_words ==
  {
    <<"t","h","e">>, <<"a">>, <<"a","n">>, <<"a","n","d">>, <<"o","r">>, <<"b","u","t">>,
    <<"i","n">>, <<"o","n">>, <<"a","t">>, <<"t","o">>, <<"f","o","r">>, <<"o","f">>,
    <<"w","i","t","h">>, <<"b","y">>, <<"f","r","o","m">>, <<"a","s">>, <<"i","s">>,
    <<"w","a","s">>, <<"a","r","e">>, <<"w","e","r","e">>, <<"b","e","e","n">>, <<"b","e">>,
    <<"h","a","v","e">>, <<"h","a","s">>, <<"h","a","d">>, <<"d","o">>, <<"d","o","e","s">>,
    <<"d","i","d">>, <<"w","i","l","l">>, <<"w","o","u","l","d">>, <<"s","h","o","u","l","d">>,
    <<"c","o","u","l","d">>, <<"m","a","y">>, <<"m","i","g","h","t">>, <<"m","u","s","t">>,
    <<"c","a","n">>, <<"t","h","i","s">>, <<"t","h","a","t">>, <<"t","h","e","s","e">>,
    <<"t","h","o","s","e">>, <<"i">>, <<"y","o","u">>, <<"h","e">>, <<"s","h","e">>, <<"i","t">>,
    <<"w","e">>, <<"t","h","e","y">>
  }

-----------------------------------------------------------------------------
(* ATSAnalyzer._extract_keywords                                           *)

\* default arguments of _extract_keywords
DefaultMinLength == 3
DefaultMaxKeywords == 50

\* the last index of the run of [a-z] that starts at i (i-1 when there is none)
RECURSIVE LetterRunEnd(_, _)
LetterRunEnd(text, i) ==
    IF i <= Len(text) /\ text[i] \in Lower THEN LetterRunEnd(text, i + 1) ELSE i - 1

\* re.findall(r'\b[a-z]{min_length,}\b', text).  A match starts at a word
\* boundary, takes the whole run of [a-z] from there (greedy) and needs a
\* word boundary after it; no shorter prefix of the run ends at one, and no
\* match starts inside a run, so the matches are the qualifying runs, left
\* to right.
findall_words(text, min_length) ==
    LET starts == {i \in DOMAIN text :
                      /\ IsWordBoundary(text, i)
                      /\ LetterRunEnd(text, i) - i + 1 >= min_length
                      /\ IsWordBoundary(text, LetterRunEnd(text, i) + 1)}
        s      == Ascending(starts, text)
    IN  [k \in DOMAIN s |-> SubSeq(text, s[k], LetterRunEnd(text, s[k]))]

\* (mutant) the stop words are not filtered out
keep_stop_words(words) == words

\* [w for w in words if w not in self.stop_words]
drop_stop_words(words) == SelectSeq(words, LAMBDA w : w \notin stop_words)

\* Counter(keywords): <<word, count>> in the order of the first occurrences
Counter(keywords) ==
    LET firsts == {i \in DOMAIN keywords : \A h \in 1..(i - 1) : keywords[h] # keywords[i]}
        f      == Ascending(firsts, keywords)
    IN  [k \in DOMAIN f |->
            <<keywords[f[k]],
              Cardinality({h \in DOMAIN keywords : keywords[h] = keywords[f[k]]})>>]

\* the highest count of a Counter (0 when it is empty)
highest_count(counter) ==
    IF counter = <<>> THEN 0
    ELSE counter[CHOOSE i \in DOMAIN counter :
                     \A h \in DOMAIN counter : counter[h][2] <= counter[i][2]][2]

\* the items of count c, then those of count c-1, ... in insertion order
RECURSIVE descending(_, _)
descending(counter, c) ==
    IF c = 0 THEN <<>>
    ELSE SelectSeq(counter, LAMBDA item : item[2] = c) \o descending(counter, c - 1)

\* Counter.most_common(n): sorted(items, key=itemgetter(1), reverse=True)[:n],
\* a stable sort: an item comes after the items of a higher count and after
\* the earlier items of its own count
\* (mutant) the first n items in the order the Counter holds them
most_common_unsorted(counter, n) == Take(SubSeq(counter, 1, Len(counter)), n)

most_common(counter, n) ==
    LET items  == SubSeq(counter, 1, Len(counter))
        sorted == descending(items, highest_count(items))
    IN  Take(sorted, n)

extract_keywords(text, min_length, max_keywords) ==
    LET words    == findall_words(text, min_length)
        keywords == drop_stop_words(words)
        word_freq == Counter(keywords)
    IN  most_common(word_freq, max_keywords)

\* dict.get(key, default) and the keys of a dict
dict_get(d, key, default) ==
    IF \E i \in DOMAIN d : d[i][1] = key
    THEN d[CHOOSE i \in DOMAIN d : d[i][1] = key][2]
    ELSE default

dict_keys(d) == {d[i][1] : i \in DOMAIN d}

-----------------------------------------------------------------------------
(* Python's round() of the two float expressions of the source.            *)

\* round-half-to-even of the exact quotient num/den
HalfEven(num, den) ==
    LET q == num \div den
        r == num % den
    IN  IF 2 * r < den THEN q
        ELSE IF 2 * r > den THEN q + 1
        ELSE IF q % 2 = 0 THEN q ELSE q + 1

\* (mutant) the percentage is truncated, as int() would
floor_percent(m, n) == (100 * m) \div n

\* round((m / n) * 100) for 0 <= m <= n <= 50: the double (23/40)*100 is
\* 57.49999999999999, every other product rounds as its exact value does
round_percent(m, n) ==
    IF m = 23 /\ n = 40 THEN 57 ELSE HalfEven(100 * m, n)

\* The sub-scores <<keyword, skill, format, readability>> whose double sum
\* k*0.35 + s*0.30 + f*0.25 + r*0.10 lies just below an exact half that
\* round-half-to-even would take upwards (k, s in 0..100, f a multiple of 5 in
\* 0..100, r in {0, 60, 70, 80, 100}); round() takes these downwards.
FloatSumBelowHalf ==
  {
    <<2,36,0,0>>, <<2,41,10,0>>, <<2,96,0,0>>, <<4,57,0,70>>, <<4,57,20,0>>, <<4,57,20,60>>,
    <<4,57,20,80>>, <<4,62,10,70>>, <<4,62,30,0>>, <<4,67,0,0>>, <<4,67,0,60>>, <<4,67,0,80>>,
    <<4,67,0,100>>, <<4,67,40,0>>, <<4,72,10,0>>, <<4,72,10,60>>, <<4,77,0,70>>, <<4,77,20,0>>,
    <<4,87,0,0>>, <<4,92,10,0>>, <<6,18,0,0>>, <<7,31,15,0>>, <<9,57,5,0>>, <<9,57,5,60>>,
    <<9,57,5,80>>, <<9,57,5,100>>, <<9,57,45,0>>, <<9,62,15,0>>, <<9,62,15,60>>, <<9,67,5,70>>,
    <<9,67,25,0>>, <<9,77,5,0>>, <<9,82,15,0>>, <<12,11,0,0>>, <<12,31,0,0>>, <<14,2,0,0>>,
    <<14,57,10,70>>, <<14,57,30,0>>, <<14,62,0,0>>, <<14,62,0,60>>, <<14,62,0,80>>,
    <<14,67,10,0>>, <<14,72,20,0>>, <<14,82,0,0>>, <<17,1,5,0>>, <<19,57,15,0>>,
    <<19,62,25,0>>, <<19,72,5,0>>, <<23,4,25,0>>, <<24,2,10,0>>, <<24,7,20,0>>, <<24,17,0,0>>,
    <<24,57,0,0>>, <<24,57,0,60>>, <<24,62,10,0>>, <<24,77,0,0>>, <<28,4,10,0>>, <<29,7,5,0>>,
    <<29,67,5,0>>, <<33,9,5,0>>, <<34,12,0,0>>, <<34,57,10,0>>, <<39,2,5,0>>, <<46,3,10,0>>,
    <<46,3,10,60>>, <<46,3,10,80>>, <<46,3,10,100>>, <<46,3,30,70>>, <<46,3,50,0>>,
    <<46,8,0,70>>, <<46,8,20,0>>, <<46,8,20,60>>, <<46,8,20,80>>, <<46,13,10,70>>,
    <<46,13,30,0>>, <<46,18,0,0>>, <<46,18,0,60>>, <<46,18,0,80>>, <<46,18,0,100>>,
    <<46,18,40,0>>, <<46,23,10,0>>, <<46,23,10,60>>, <<48,4,10,70>>, <<48,4,30,0>>,
    <<48,4,30,60>>, <<48,9,0,0>>, <<48,9,0,60>>, <<48,9,0,80>>, <<48,9,0,100>>, <<48,9,20,70>>,
    <<48,9,40,0>>, <<48,14,10,0>>, <<48,14,10,60>>, <<48,14,10,80>>, <<48,19,0,70>>,
    <<48,19,20,0>>, <<48,24,30,0>>, <<48,29,0,0>>, <<48,29,0,60>>, <<48,34,10,0>>,
    <<48,49,0,0>>, <<51,3,15,70>>, <<51,3,35,0>>, <<51,8,5,0>>, <<51,8,5,60>>, <<51,8,5,80>>,
    <<51,8,5,100>>, <<51,8,45,0>>, <<51,13,15,0>>, <<51,13,15,60>>, <<51,18,5,70>>,
    <<51,18,25,0>>, <<53,4,15,0>>, <<53,4,15,60>>, <<53,4,15,80>>, <<53,9,5,70>>,
    <<53,9,25,0>>, <<53,14,35,0>>, <<53,19,5,0>>, <<53,19,5,60>>, <<53,24,15,0>>,
    <<53,39,5,0>>, <<56,3,0,70>>, <<56,3,20,0>>, <<56,3,20,60>>, <<56,8,10,70>>, <<56,8,30,0>>,
    <<56,13,0,0>>, <<56,13,0,60>>, <<56,13,0,80>>, <<56,18,10,0>>, <<56,23,20,0>>,
    <<58,4,0,0>>, <<58,4,0,60>>, <<58,4,0,80>>, <<58,4,0,100>>, <<58,4,40,0>>, <<58,9,10,0>>,
    <<58,9,10,60>>, <<58,14,0,70>>, <<58,14,20,0>>, <<58,24,0,0>>, <<58,29,10,0>>,
    <<61,3,5,0>>, <<61,3,5,60>>, <<61,3,5,80>>, <<61,8,15,0>>, <<61,13,25,0>>, <<61,23,5,0>>,
    <<63,4,5,70>>, <<63,4,25,0>>, <<63,14,5,0>>, <<63,19,15,0>>, <<66,3,30,0>>, <<66,8,0,0>>,
    <<66,8,0,60>>, <<66,13,10,0>>, <<68,4,10,0>>, <<68,9,20,0>>, <<68,19,0,0>>, <<71,3,15,0>>,
    <<71,18,5,0>>, <<73,9,5,0>>, <<76,3,0,0>>, <<76,8,10,0>>, <<78,14,0,0>>, <<83,4,5,0>>,
    <<90,0,0,0>>, <<92,1,0,70>>, <<92,1,20,0>>, <<92,1,20,60>>, <<92,1,20,80>>,
    <<92,1,20,100>>, <<92,1,40,70>>, <<92,1,60,0>>, <<92,1,60,60>>, <<92,1,60,80>>,
    <<92,1,60,100>>, <<92,1,80,70>>, <<92,1,100,0>>, <<92,1,100,60>>, <<92,6,10,70>>,
    <<92,6,30,0>>, <<92,6,30,60>>, <<92,6,30,80>>, <<92,6,30,100>>, <<92,6,50,70>>,
    <<92,6,70,0>>, <<92,6,70,60>>, <<92,6,70,80>>, <<92,6,70,100>>, <<92,6,90,70>>,
    <<92,11,0,0>>, <<92,11,0,60>>, <<92,11,0,80>>, <<92,11,0,100>>, <<92,11,20,70>>,
    <<92,11,40,0>>, <<92,11,40,60>>, <<92,11,40,80>>, <<92,11,40,100>>, <<92,11,60,70>>,
    <<92,11,80,0>>, <<92,11,80,60>>, <<92,11,80,80>>, <<92,16,10,0>>, <<92,16,10,60>>,
    <<92,16,10,80>>, <<92,16,10,100>>, <<92,16,30,70>>, <<92,16,50,0>>, <<92,16,50,60>>,
    <<92,16,50,80>>, <<92,16,50,100>>, <<92,16,70,70>>, <<92,16,90,0>>, <<92,21,0,70>>,
    <<92,21,20,0>>, <<92,21,20,60>>, <<92,21,20,80>>, <<92,21,20,100>>, <<92,21,40,70>>,
    <<92,21,60,0>>, <<92,21,60,60>>, <<92,21,60,80>>, <<92,21,60,100>>, <<92,21,100,0>>,
    <<92,26,10,70>>, <<92,26,30,0>>, <<92,26,30,60>>, <<92,26,30,80>>, <<92,26,30,100>>,
    <<92,26,50,70>>, <<92,26,70,0>>, <<92,26,70,60>>, <<92,31,0,0>>, <<92,31,0,60>>,
    <<92,31,0,80>>, <<92,31,0,100>>, <<92,31,20,70>>, <<92,31,40,0>>, <<92,31,40,60>>,
    <<92,31,40,80>>, <<92,31,40,100>>, <<92,31,60,70>>, <<92,31,80,0>>, <<92,36,10,0>>,
    <<92,36,10,60>>, <<92,36,10,80>>, <<92,36,10,100>>, <<92,36,30,70>>, <<92,36,50,0>>,
    <<92,36,50,60>>, <<92,36,50,80>>, <<92,41,0,70>>, <<92,41,20,0>>, <<92,41,20,60>>,
    <<92,41,20,80>>, <<92,41,20,100>>, <<92,41,40,70>>, <<92,41,60,0>>, <<92,46,10,70>>,
    <<92,46,30,0>>, <<92,46,30,60>>, <<92,46,30,80>>, <<92,46,30,100>>, <<92,46,70,0>>,
    <<92,51,0,0>>, <<92,51,0,60>>, <<92,51,0,80>>, <<92,51,0,100>>, <<92,51,20,70>>,
    <<92,51,40,0>>, <<92,51,40,60>>, <<92,96,10,0>>, <<96,3,0,70>>, <<96,3,20,0>>,
    <<96,3,20,60>>, <<96,3,20,80>>, <<96,3,20,100>>, <<96,3,40,70>>, <<96,3,60,0>>,
    <<96,3,60,60>>, <<96,3,60,80>>, <<96,3,60,100>>, <<96,3,80,70>>, <<96,3,100,0>>,
    <<96,8,10,70>>, <<96,8,30,0>>, <<96,8,30,60>>, <<96,8,30,80>>, <<96,8,30,100>>,
    <<96,8,50,70>>, <<96,8,70,0>>, <<96,8,70,60>>, <<96,8,70,80>>, <<96,8,70,100>>,
    <<96,13,0,0>>, <<96,13,0,60>>, <<96,13,0,80>>, <<96,13,0,100>>, <<96,13,20,70>>,
    <<96,13,40,0>>, <<96,13,40,60>>, <<96,13,40,80>>, <<96,13,40,100>>, <<96,13,60,70>>,
    <<96,13,80,0>>, <<96,13,80,60>>, <<96,18,10,0>>, <<96,18,10,60>>, <<96,18,10,80>>,
    <<96,18,10,100>>, <<96,18,30,70>>, <<96,18,50,0>>, <<96,18,50,60>>, <<96,18,50,80>>,
    <<96,18,50,100>>, <<96,18,70,70>>, <<96,18,90,0>>, <<96,23,0,70>>, <<96,23,20,0>>,
    <<96,23,20,60>>, <<96,23,20,80>>, <<96,23,20,100>>, <<96,23,40,70>>, <<96,23,60,0>>,
    <<96,23,60,60>>, <<96,23,60,80>>, <<96,28,10,70>>, <<96,28,30,0>>, <<96,28,30,60>>,
    <<96,28,30,80>>, <<96,28,30,100>>, <<96,28,50,70>>, <<96,28,70,0>>, <<96,33,0,0>>,
    <<96,33,0,60>>, <<96,33,0,80>>, <<96,33,0,100>>, <<96,33,20,70>>, <<96,33,40,0>>,
    <<96,33,40,60>>, <<96,33,40,80>>, <<96,33,40,100>>, <<96,33,80,0>>, <<96,38,10,0>>,
    <<96,38,10,60>>, <<96,38,10,80>>, <<96,38,10,100>>, <<96,38,30,70>>, <<96,38,50,0>>,
    <<96,38,50,60>>, <<96,43,0,70>>, <<96,43,20,0>>, <<96,43,20,60>>, <<96,43,20,80>>,
    <<96,43,20,100>>, <<96,43,40,70>>, <<96,43,60,0>>, <<96,48,10,70>>, <<96,48,30,0>>,
    <<96,48,30,60>>, <<96,48,30,80>>, <<96,53,0,0>>, <<96,53,0,60>>, <<96,53,0,80>>,
    <<96,53,0,100>>, <<96,53,20,70>>, <<96,53,40,0>>, <<96,58,10,0>>, <<96,58,10,60>>,
    <<96,58,10,80>>, <<96,58,10,100>>, <<96,58,50,0>>, <<96,63,0,70>>, <<96,63,20,0>>,
    <<96,63,20,60>>, <<96,68,10,70>>, <<96,68,30,0>>, <<96,73,0,0>>, <<96,73,0,60>>,
    <<96,73,0,80>>, <<96,78,10,0>>, <<96,83,20,0>>, <<96,93,0,0>>, <<97,1,5,0>>, <<97,1,5,60>>,
    <<97,1,5,80>>, <<97,1,5,100>>, <<97,1,25,70>>, <<97,1,45,0>>, <<97,1,45,60>>,
    <<97,1,45,80>>, <<97,1,45,100>>, <<97,1,65,70>>, <<97,1,85,0>>, <<97,1,85,60>>,
    <<97,1,85,80>>, <<97,6,15,0>>, <<97,6,15,60>>, <<97,6,15,80>>, <<97,6,15,100>>,
    <<97,6,35,70>>, <<97,6,55,0>>, <<97,6,55,60>>, <<97,6,55,80>>, <<97,6,55,100>>,
    <<97,6,75,70>>, <<97,6,95,0>>, <<97,11,5,70>>, <<97,11,25,0>>, <<97,11,25,60>>,
    <<97,11,25,80>>, <<97,11,25,100>>, <<97,11,45,70>>, <<97,11,65,0>>, <<97,11,65,60>>,
    <<97,11,65,80>>, <<97,11,65,100>>, <<97,16,15,70>>, <<97,16,35,0>>, <<97,16,35,60>>,
    <<97,16,35,80>>, <<97,16,35,100>>, <<97,16,55,70>>, <<97,16,75,0>>, <<97,16,75,60>>,
    <<97,21,5,0>>, <<97,21,5,60>>, <<97,21,5,80>>, <<97,21,5,100>>, <<97,21,25,70>>,
    <<97,21,45,0>>, <<97,21,45,60>>, <<97,21,45,80>>, <<97,21,45,100>>, <<97,21,65,70>>,
    <<97,21,85,0>>, <<97,26,15,0>>, <<97,26,15,60>>, <<97,26,15,80>>, <<97,26,15,100>>,
    <<97,26,35,70>>, <<97,26,55,0>>, <<97,26,55,60>>, <<97,26,55,80>>, <<97,31,5,70>>,
    <<97,31,25,0>>, <<97,31,25,60>>, <<97,31,25,80>>, <<97,31,25,100>>, <<97,31,45,70>>,
    <<97,31,65,0>>, <<97,36,15,70>>, <<97,36,35,0>>, <<97,36,35,60>>, <<97,36,35,80>>,
    <<97,36,35,100>>, <<97,36,75,0>>, <<97,41,5,0>>, <<97,41,5,60>>, <<97,41,5,80>>,
    <<97,41,5,100>>, <<97,41,25,70>>, <<97,41,45,0>>, <<97,41,45,60>>, <<97,46,15,0>>,
    <<97,46,15,60>>, <<97,46,15,80>>, <<97,46,15,100>>, <<97,46,35,70>>, <<97,46,55,0>>,
    <<97,51,5,70>>, <<97,51,25,0>>, <<97,51,25,60>>, <<97,51,25,80>>
  }

\* round(keyword_score*0.35 + skill_score*0.30 + format_score*0.25 + readability*0.10)
\* (mutant) the sub-scores are added without their weights
unweighted_score(keyword_score, skill_score, format_score, readability) ==
    keyword_score + skill_score + format_score + readability

\* (mutant) the weighted sum is truncated, as int() would
truncated_score(keyword_score, skill_score, format_score, readability) ==
    (35 * keyword_score + 30 * skill_score + 25 * format_score + 10 * readability) \div 100

weighted_score(keyword_score, skill_score, format_score, readability) ==
    LET hundredths == 35 * keyword_score + 30 * skill_score
                      + 25 * format_score + 10 * readability
    IN  IF <<keyword_score, skill_score, format_score, readability>> \in FloatSumBelowHalf
        THEN hundredths \div 100
        ELSE HalfEven(hundredths, 100)

-----------------------------------------------------------------------------
(* ATSAnalyzer._extract_required_skills                                    *)

\* the alternatives of the six patterns, in order; node\.?js is written as its
\* two expansions, the greedy one first
skill_patterns ==
 <<
  <<
    <<"p","y","t","h","o","n">>, <<"j","a","v","a">>, <<"j","a","v","a","s","c","r","i","p","t">>,
    <<"r","e","a","c","t">>, <<"a","n","g","u","l","a","r">>, <<"v","u","e">>,
    <<"d","j","a","n","g","o">>, <<"f","l","a","s","k">>, <<"n","o","d","e",".","j","s">>,
    <<"n","o","d","e","j","s">>
  >>,
  <<
    <<"s","q","l">>, <<"m","y","s","q","l">>, <<"p","o","s","t","g","r","e","s","q","l">>,
    <<"m","o","n","g","o","d","b">>, <<"r","e","d","i","s">>,
    <<"e","l","a","s","t","i","c","s","e","a","r","c","h">>
  >>,
  <<
    <<"a","w","s">>, <<"a","z","u","r","e">>, <<"g","c","p">>, <<"d","o","c","k","e","r">>,
    <<"k","u","b","e","r","n","e","t","e","s">>, <<"j","e","n","k","i","n","s">>, <<"g","i","t">>
  >>,
  <<
    <<"h","t","m","l">>, <<"c","s","s">>, <<"t","y","p","e","s","c","r","i","p","t">>, <<"g","o">>,
    <<"r","u","s","t">>, <<"p","h","p">>, <<"r","u","b","y">>, <<"s","w","i","f","t">>,
    <<"k","o","t","l","i","n">>
  >>,
  <<
    <<"m","a","c","h","i","n","e"," ","l","e","a","r","n","i","n","g">>, <<"m","l">>, <<"a","i">>,
    <<"d","a","t","a"," ","s","c","i","e","n","c","e">>, <<"a","n","a","l","y","t","i","c","s">>
  >>,
  <<
    <<"a","g","i","l","e">>, <<"s","c","r","u","m">>, <<"d","e","v","o","p","s">>,
    <<"c","i","/","c","d">>, <<"t","d","d">>, <<"r","e","s","t"," ","a","p","i">>,
    <<"g","r","a","p","h","q","l">>
  >>
 >>

\* the first alternative of the pattern that matches at i between two \b, or <<>>
RECURSIVE match_alternative(_, _, _, _)
match_alternative(text, i, alts, a) ==
    IF a > Len(alts) THEN <<>>
    ELSE IF /\ i + Len(alts[a]) - 1 <= Len(text)
            /\ SubSeq(text, i, i + Len(alts[a]) - 1) = alts[a]
            /\ IsWordBoundary(text, i + Len(alts[a]))
         THEN alts[a]
         ELSE match_alternative(text, i, alts, a + 1)

\* re.findall(pattern, text, re.IGNORECASE) on the lowercased text, from position i
RECURSIVE findall_skills(_, _, _)
findall_skills(text, alts, i) ==
    LET starts == {j \in i..Len(text) :
                      IsWordBoundary(text, j) /\ match_alternative(text, j, alts, 1) # <<>>}
    IN  IF starts = {} THEN <<>>
        ELSE LET first == CHOOSE j \in starts : \A h \in starts : j <= h
                 m     == match_alternative(text, first, alts, 1)
             IN  <<m>> \o findall_skills(text, alts, first + Len(m))

\* set([s.lower() for s in skills])
\* (mutant) the patterns lack the \b in front
required_skill_set_inside(job_description) ==
    {alternative \in UNION {{skill_patterns[p][a] : a \in DOMAIN skill_patterns[p]} :
                                p \in DOMAIN skill_patterns} :
        \E i \in DOMAIN job_description :
            /\ i + Len(alternative) - 1 <= Len(job_description)
            /\ SubSeq(job_description, i, i + Len(alternative) - 1) = alternative}

required_skill_set(job_description) ==
    UNION { {lower(m[h]) : h \in DOMAIN m} :
            m \in { findall_skills(job_description, skill_patterns[p], 1) :
                    p \in DOMAIN skill_patterns } }

\* every list that enumerates the set once
Orderings(S) ==
    {f \in [1..Cardinality(S) -> S] : \A i, j \in 1..Cardinality(S) : i # j => f[i] # f[j]}

\* list(set(...)): the iteration order of a set of str is not fixed by the
\* program (string hashing is seeded per process), so every order is a value
\* the call can return
extract_required_skills(job_description) == Orderings(required_skill_set(job_description))

-----------------------------------------------------------------------------
(* ATSAnalyzer.calculate_keyword_match                                     *)

\* the slices matched[:20], missing[:20] of calculate_keyword_match
KeywordListLimit == 20

\* (mutant) the ratio is not capped at 1
match_ratio_uncapped(resume_count, jd_count) == <<resume_count, jd_count>>

\* min(resume_count / jd_count, 1.0), as the fraction <<numerator, denominator>>
match_ratio(resume_count, jd_count) ==
    IF resume_count >= jd_count THEN <<1, 1>> ELSE <<resume_count, jd_count>>

\* the for loop over jd_keywords.items(): the keywords the resume has go to
\* matched and get a density entry, the others go to missing, in dict order
keyword_loop(jd_keywords, resume_keywords) ==
    LET resume_count(entry) == dict_get(resume_keywords, entry[1], 0)
        hits   == SelectSeq(jd_keywords, LAMBDA entry : resume_count(entry) > 0)
        misses == SelectSeq(jd_keywords, LAMBDA entry : ~(resume_count(entry) > 0))
    IN  [matched |-> [k \in DOMAIN hits |-> hits[k][1]],
         missing |-> [k \in DOMAIN misses |-> misses[k][1]],
         density |-> [k \in DOMAIN hits |->
                        <<hits[k][1],
                          [jd_count     |-> hits[k][2],
                           resume_count |-> resume_count(hits[k]),
                           match_ratio  |-> match_ratio(resume_count(hits[k]), hits[k][2])]>>]]

\* (mutant) no keyword to match counts as all matched
no_keywords_vacuous == [score |-> 100, matched |-> <<>>, missing |-> <<>>, density |-> <<>>]

\* return 0, [], [], {}
no_keywords == [score |-> 0, matched |-> <<>>, missing |-> <<>>, density |-> <<>>]

\* (mutant) the score is computed from the lists after they are cut
calculate_keyword_match_cut(job_description, resume_text) ==
    LET jd_keywords     == extract_keywords(job_description, DefaultMinLength, DefaultMaxKeywords)
        resume_keywords == extract_keywords(resume_text, DefaultMinLength, DefaultMaxKeywords)
        all             == keyword_loop(jd_keywords, resume_keywords)
    IN  IF jd_keywords = <<>>
        THEN no_keywords
        ELSE [score   |-> round_percent(Len(Take(all.matched, KeywordListLimit)),
                                        Len(jd_keywords)),
              matched |-> Take(all.matched, KeywordListLimit),
              missing |-> Take(all.missing, KeywordListLimit),
              density |-> all.density]

calculate_keyword_match(job_description, resume_text) ==
    LET jd_keywords     == extract_keywords(job_description, DefaultMinLength, DefaultMaxKeywords)
        resume_keywords == extract_keywords(resume_text, DefaultMinLength, DefaultMaxKeywords)
        all             == keyword_loop(jd_keywords, resume_keywords)
    IN  IF jd_keywords = <<>>
        THEN no_keywords
        ELSE [score   |-> round_percent(Len(all.matched), Len(jd_keywords)),
              matched |-> Take(all.matched, KeywordListLimit),
              missing |-> Take(all.missing, KeywordListLimit),
              density |-> all.density]

-----------------------------------------------------------------------------
(* ATSAnalyzer.check_required_skills                                       *)

\* the for loop over required_skills, from entry i on
RECURSIVE skill_loop(_, _, _)
skill_loop(required_skills, resume_text, i) ==
    IF i > Len(required_skills) THEN [found |-> <<>>, missing |-> <<>>]
    ELSE LET rest == skill_loop(required_skills, resume_text, i + 1)
         IN  IF contains(resume_text, required_skills[i])
             THEN [found |-> <<required_skills[i]>> \o rest.found, missing |-> rest.missing]
             ELSE [found |-> rest.found, missing |-> <<required_skills[i]>> \o rest.missing]

\* required_skills is the list _extract_required_skills() returned
check_required_skills(required_skills, resume_text) ==
    LET lists == skill_loop(required_skills, resume_text, 1)
    IN  IF required_skills = <<>>
        THEN [score |-> 100, found |-> lists.found, missing |-> lists.missing]
        ELSE [score   |-> round_percent(Len(lists.found), Len(required_skills)),
              found   |-> lists.found,
              missing |-> lists.missing]

-----------------------------------------------------------------------------
(* The string literals of check_formatting, generate_suggestions, analyze. *)

\* 'Missing email address'
MissingEmail ==
    <<"M","i","s","s","i","n","g"," ","e","m","a","i","l"," ","a","d","d","r","e","s","s">>

\* 'Missing phone number'
MissingPhone ==
    <<"M","i","s","s","i","n","g"," ","p","h","o","n","e"," ","n","u","m","b","e","r">>

\* 'No work experience listed'
NoExperience ==
    <<"N","o"," ","w","o","r","k"," ","e","x","p","e","r","i","e","n","c","e"," ","l","i","s",
      "t","e","d">>

\* 'No skills listed'
NoSkills ==
    <<"N","o"," ","s","k","i","l","l","s"," ","l","i","s","t","e","d">>

\* 'Add quantifiable achievements (numbers, percentages, metrics)'
NoMetrics ==
    <<"A","d","d"," ","q","u","a","n","t","i","f","i","a","b","l","e"," ","a","c","h","i","e",
      "v","e","m","e","n","t","s"," ","(","n","u","m","b","e","r","s",","," ","p","e","r","c",
      "e","n","t","a","g","e","s",","," ","m","e","t","r","i","c","s",")">>

\* 'Professional summary is too short (aim for 50-100 words)'
SummaryTooShort ==
    <<"P","r","o","f","e","s","s","i","o","n","a","l"," ","s","u","m","m","a","r","y"," ","i",
      "s"," ","t","o","o"," ","s","h","o","r","t"," ","(","a","i","m"," ","f","o","r"," ","5",
      "0","-","1","0","0"," ","w","o","r","d","s",")">>

\* 'Professional summary is too long (aim for 50-100 words)'
SummaryTooLong ==
    <<"P","r","o","f","e","s","s","i","o","n","a","l"," ","s","u","m","m","a","r","y"," ","i",
      "s"," ","t","o","o"," ","l","o","n","g"," ","(","a","i","m"," ","f","o","r"," ","5","0",
      "-","1","0","0"," ","w","o","r","d","s",")">>

\* 'Missing professional summary'
MissingSummary ==
    <<"M","i","s","s","i","n","g"," ","p","r","o","f","e","s","s","i","o","n","a","l"," ","s",
      "u","m","m","a","r","y">>

\* 'quantifiable achievements'
QuantifiableAchievements ==
    <<"q","u","a","n","t","i","f","i","a","b","l","e"," ","a","c","h","i","e","v","e","m","e",
      "n","t","s">>

\* 'Only '
OnlyPrefix ==
    <<"O","n","l","y"," ">>

\* '% keyword match. Add more relevant keywords from the job description.'
OnlySuffix ==
    <<"%"," ","k","e","y","w","o","r","d"," ","m","a","t","c","h","."," ","A","d","d"," ","m",
      "o","r","e"," ","r","e","l","e","v","a","n","t"," ","k","e","y","w","o","r","d","s"," ",
      "f","r","o","m"," ","t","h","e"," ","j","o","b"," ","d","e","s","c","r","i","p","t","i",
      "o","n",".">>

\* 'Focus on these missing keywords: '
FocusPrefix ==
    <<"F","o","c","u","s"," ","o","n"," ","t","h","e","s","e"," ","m","i","s","s","i","n","g",
      " ","k","e","y","w","o","r","d","s",":"," ">>

\* 'Good keyword coverage, but room for improvement.'
GoodCoverage ==
    <<"G","o","o","d"," ","k","e","y","w","o","r","d"," ","c","o","v","e","r","a","g","e",",",
      " ","b","u","t"," ","r","o","o","m"," ","f","o","r"," ","i","m","p","r","o","v","e","m",
      "e","n","t",".">>

\* 'Consider adding: '
ConsiderPrefix ==
    <<"C","o","n","s","i","d","e","r"," ","a","d","d","i","n","g",":"," ">>

\* 'Missing '
MissingPrefix ==
    <<"M","i","s","s","i","n","g"," ">>

\* ' required technical skills.'
MissingSuffix ==
    <<" ","r","e","q","u","i","r","e","d"," ","t","e","c","h","n","i","c","a","l"," ","s","k",
      "i","l","l","s",".">>

\* 'Add these skills if you have them: '
AddSkillsPrefix ==
    <<"A","d","d"," ","t","h","e","s","e"," ","s","k","i","l","l","s"," ","i","f"," ","y","o",
      "u"," ","h","a","v","e"," ","t","h","e","m",":"," ">>

\* 'Update your resume to address this issue.'
UpdateResume ==
    <<"U","p","d","a","t","e"," ","y","o","u","r"," ","r","e","s","u","m","e"," ","t","o"," ",
      "a","d","d","r","e","s","s"," ","t","h","i","s"," ","i","s","s","u","e",".">>

\* 'Your resume looks great! Continue refining based on specific job requirements.'
LooksGreat ==
    <<"Y","o","u","r"," ","r","e","s","u","m","e"," ","l","o","o","k","s"," ","g","r","e","a",
      "t","!"," ","C","o","n","t","i","n","u","e"," ","r","e","f","i","n","i","n","g"," ","b",
      "a","s","e","d"," ","o","n"," ","s","p","e","c","i","f","i","c"," ","j","o","b"," ","r",
      "e","q","u","i","r","e","m","e","n","t","s",".">>

\* 'Review and update before each application.'
ReviewAndUpdate ==
    <<"R","e","v","i","e","w"," ","a","n","d"," ","u","p","d","a","t","e"," ","b","e","f","o",
      "r","e"," ","e","a","c","h"," ","a","p","p","l","i","c","a","t","i","o","n",".">>

\* ', '
CommaSpace ==
    <<","," ">>

\* str(n) of an int n >= 0, as the f-strings format it
DigitChar == <<"0","1","2","3","4","5","6","7","8","9">>

RECURSIVE str_int(_)
str_int(n) ==
    IF n < 10 THEN <<DigitChar[n + 1]>>
    ELSE str_int(n \div 10) \o <<DigitChar[(n % 10) + 1]>>

-----------------------------------------------------------------------------
(* ATSAnalyzer.check_formatting                                            *)

\* re.search(r'\d+[%$]?|\d+\+', description): the first alternative matches
\* at the first digit, whatever follows it
has_number(description) == \E i \in DOMAIN description : description[i] \in Digits

\* an exception that leaves a method, and the results that are one
TypeError == [raised |-> "TypeError"]
Raised(result) == "raised" \in DOMAIN result

\* the loop over experiences.all() reaches re.search(pattern, None), which
\* raises TypeError: a description is None and no experience before it
\* has ended the loop with break
search_raises(resume) ==
    \E e \in DOMAIN resume.experiences :
        /\ resume.experiences[e].description = None
        /\ \A h \in 1..(e - 1) : ~has_number(resume.experiences[h].description)

\* the loop over experiences.all() that sets has_metrics
\* (mutant) only the first experience is searched for a number
has_metrics_first(resume) ==
    resume.experiences # <<>> /\ has_number(resume.experiences[1].description)

has_metrics(resume) ==
    \E e \in DOMAIN resume.experiences : has_number(resume.experiences[e].description)

\* each step of check_formatting: <<deduction, issues appended>>
email_check(resume) ==
    IF falsy(resume.email) THEN <<10, <<MissingEmail>>>> ELSE <<0, <<>>>>

\* (mutant) a missing phone costs as much as a missing email
phone_check_ten(resume) ==
    IF falsy(resume.phone) THEN <<10, <<MissingPhone>>>> ELSE <<0, <<>>>>

phone_check(resume) ==
    IF falsy(resume.phone) THEN <<5, <<MissingPhone>>>> ELSE <<0, <<>>>>

experience_check(resume) ==
    IF resume.experiences = <<>> THEN <<20, <<NoExperience>>>> ELSE <<0, <<>>>>

skills_check(resume) ==
    IF resume.skills = <<>> THEN <<15, <<NoSkills>>>> ELSE <<0, <<>>>>

\* (mutant) numbers are asked for only when there are experiences
metrics_check_listed(resume) ==
    IF resume.experiences # <<>> /\ ~has_metrics(resume)
    THEN <<10, <<NoMetrics>>>> ELSE <<0, <<>>>>

metrics_check(resume) ==
    IF ~has_metrics(resume) THEN <<10, <<NoMetrics>>>> ELSE <<0, <<>>>>

\* (mutant) the length test is not nested under the test for a summary
summary_check_unguarded(resume) ==
    LET word_count == IF falsy(resume.summary) THEN 0 ELSE Len(split(resume.summary))
        length     == IF word_count < 20 THEN <<5, <<SummaryTooShort>>>>
                      ELSE IF word_count > 150 THEN <<5, <<SummaryTooLong>>>>
                      ELSE <<0, <<>>>>
    IN  IF falsy(resume.summary)
        THEN <<length[1] + 10, length[2] \o <<MissingSummary>>>>
        ELSE length

summary_check(resume) ==
    IF ~falsy(resume.summary)
    THEN LET word_count == Len(split(resume.summary))
         IN  IF word_count < 20 THEN <<5, <<SummaryTooShort>>>>
             ELSE IF word_count > 150 THEN <<5, <<SummaryTooLong>>>>
             ELSE <<0, <<>>>>
    ELSE <<10, <<MissingSummary>>>>

Max(a, b) == IF a >= b THEN a ELSE b

check_formatting(resume) ==
    IF search_raises(resume) THEN TypeError ELSE
    LET steps == <<email_check(resume), phone_check(resume), experience_check(resume),
                   skills_check(resume), metrics_check(resume), summary_check(resume)>>
        score == 100 - steps[1][1] - steps[2][1] - steps[3][1]
                     - steps[4][1] - steps[5][1] - steps[6][1]
    IN  [score  |-> Max(score, 0),
         issues |-> steps[1][2] \o steps[2][2] \o steps[3][2]
                    \o steps[4][2] \o steps[5][2] \o steps[6][2]]

-----------------------------------------------------------------------------
(* ATSAnalyzer.calculate_readability                                       *)

\* re.split(r'[.!?]+', text): the pieces before, between and after the runs
\* of terminators; a piece is empty when the text starts or ends with a run
split_sentences(text) ==
    LET starts == {i \in DOMAIN text :
                      text[i] \in Terminators /\ (i = 1 \/ text[i - 1] \notin Terminators)}
        ends   == {j \in DOMAIN text :
                      text[j] \in Terminators
                      /\ (j = Len(text) \/ text[j + 1] \notin Terminators)}
        s      == Ascending(starts, text)
        e      == Ascending(ends, text)
        n      == Len(s)
    IN  [k \in 1..(n + 1) |->
            SubSeq(text, IF k = 1 THEN 1 ELSE e[k - 1] + 1,
                         IF k = n + 1 THEN Len(text) ELSE s[k] - 1)]

\* (mutant) the ideal band excludes its lower end
readability_band_open(words, sentences) ==
    IF 15 * sentences < words /\ words <= 20 * sentences THEN 100
    ELSE IF \/ (10 * sentences <= words /\ words <= 15 * sentences)
            \/ (20 * sentences < words /\ words <= 25 * sentences) THEN 80
    ELSE 60

\* the bands of avg_sentence_length = words / sentences; the quotient of two
\* small ints compares with 10, 15, 20, 25 as the exact fraction does
readability_band(words, sentences) ==
    IF 15 * sentences <= words /\ words <= 20 * sentences THEN 100
    ELSE IF \/ (10 * sentences <= words /\ words < 15 * sentences)
            \/ (20 * sentences < words /\ words <= 25 * sentences) THEN 80
    ELSE IF words < 10 * sentences \/ words > 25 * sentences THEN 60
    ELSE 70

calculate_readability(resume_text) ==
    IF resume_text = EmptyText THEN 0
    ELSE LET sentences == split_sentences(resume_text)
             words     == split(resume_text)
         IN  IF sentences = <<>> \/ words = <<>> THEN 0
             ELSE readability_band(Len(words), Len(sentences))

-----------------------------------------------------------------------------
(* ATSAnalyzer.generate_suggestions                                        *)

Suggestion(category, severity, message, action) ==
    [category |-> category, severity |-> severity, message |-> message, action |-> action]

\* (mutant) both Keywords suggestions name three keywords
keyword_suggestions_three(keyword_score, missing_keywords) ==
    IF keyword_score < 60
    THEN <<Suggestion("Keywords", "high",
                      OnlyPrefix \o str_int(keyword_score) \o OnlySuffix,
                      FocusPrefix \o join(CommaSpace, Take(missing_keywords, 3)))>>
    ELSE IF keyword_score < 80
    THEN <<Suggestion("Keywords", "medium", GoodCoverage,
                      ConsiderPrefix \o join(CommaSpace, Take(missing_keywords, 3)))>>
    ELSE <<>>

\* (mutant) like the Skills suggestion, the Keywords suggestion is given only
\* when there is a missing keyword to name
keyword_suggestions_named(keyword_score, missing_keywords) ==
    IF missing_keywords = <<>> THEN <<>>
    ELSE IF keyword_score < 60
    THEN <<Suggestion("Keywords", "high",
                      OnlyPrefix \o str_int(keyword_score) \o OnlySuffix,
                      FocusPrefix \o join(CommaSpace, Take(missing_keywords, 5)))>>
    ELSE IF keyword_score < 80
    THEN <<Suggestion("Keywords", "medium", GoodCoverage,
                      ConsiderPrefix \o join(CommaSpace, Take(missing_keywords, 3)))>>
    ELSE <<>>

keyword_suggestions(keyword_score, missing_keywords) ==
    IF keyword_score < 60
    THEN <<Suggestion("Keywords", "high",
                      OnlyPrefix \o str_int(keyword_score) \o OnlySuffix,
                      FocusPrefix \o join(CommaSpace, Take(missing_keywords, 5)))>>
    ELSE IF keyword_score < 80
    THEN <<Suggestion("Keywords", "medium", GoodCoverage,
                      ConsiderPrefix \o join(CommaSpace, Take(missing_keywords, 3)))>>
    ELSE <<>>

\* (mutant) the Skills suggestion is given below 60 only
skill_suggestions_sixty(skill_score, missing_skills) ==
    IF skill_score < 60 /\ missing_skills # <<>>
    THEN <<Suggestion("Skills", "high",
                      MissingPrefix \o str_int(Len(missing_skills)) \o MissingSuffix,
                      AddSkillsPrefix \o join(CommaSpace, Take(missing_skills, 5)))>>
    ELSE <<>>

skill_suggestions(skill_score, missing_skills) ==
    IF skill_score < 70 /\ missing_skills # <<>>
    THEN <<Suggestion("Skills", "high",
                      MissingPrefix \o str_int(Len(missing_skills)) \o MissingSuffix,
                      AddSkillsPrefix \o join(CommaSpace, Take(missing_skills, 5)))>>
    ELSE <<>>

\* (mutant) the format issues are taken last to first
formatting_suggestions_reversed(format_issues) ==
    [i \in DOMAIN format_issues |->
        Suggestion("Formatting", "medium",
                   format_issues[Len(format_issues) + 1 - i], UpdateResume)]

formatting_suggestions(format_issues) ==
    [i \in DOMAIN format_issues |->
        Suggestion("Formatting", "medium", format_issues[i], UpdateResume)]

\* (mutant) the General suggestion is appended to every list
generate_suggestions_and_general(keyword_score, skill_score, format_score, missing_keywords, missing_skills, format_issues) ==
    keyword_suggestions(keyword_score, missing_keywords)
    \o skill_suggestions(skill_score, missing_skills)
    \o formatting_suggestions(format_issues)
    \o <<Suggestion("General", "low", LooksGreat, ReviewAndUpdate)>>

generate_suggestions(keyword_score, skill_score, format_score, missing_keywords, missing_skills, format_issues) ==
    LET suggestions == keyword_suggestions(keyword_score, missing_keywords)
                       \o skill_suggestions(skill_score, missing_skills)
                       \o formatting_suggestions(format_issues)
    IN  IF suggestions = <<>>
        THEN <<Suggestion("General", "low", LooksGreat, ReviewAndUpdate)>>
        ELSE suggestions

-----------------------------------------------------------------------------
(* ATSAnalyzer._extract_resume_text and __init__                           *)

\* Education.DEGREE_CHOICES, which get_degree_display() looks the label up in
DEGREE_CHOICES ==
  [high_school |-> <<"H","i","g","h"," ","S","c","h","o","o","l"," ","D","i","p","l","o","m","a">>,
   associate |-> <<"A","s","s","o","c","i","a","t","e"," ","D","e","g","r","e","e">>,
   bachelor |-> <<"B","a","c","h","e","l","o","r","'","s"," ","D","e","g","r","e","e">>,
   master |-> <<"M","a","s","t","e","r","'","s"," ","D","e","g","r","e","e">>,
   phd |-> <<"P","h",".","D",".">>,
   certificate |-> <<"C","e","r","t","i","f","i","c","a","t","e">>,
   bootcamp |-> <<"B","o","o","t","c","a","m","p">>]

get_degree_display(edu) == DEGREE_CHOICES[edu.degree]

\* text_parts.extend(parts) for each entry of a list of lists, from entry i on
RECURSIVE extend_all(_, _)
extend_all(lists, i) ==
    IF i > Len(lists) THEN <<>> ELSE lists[i] \o extend_all(lists, i + 1)

experience_parts(exp) == <<exp.company, exp.position, exp.description>>
education_parts(edu) == <<edu.institution, edu.field_of_study, get_degree_display(edu)>>
skill_parts(skill) == <<skill.name>>
certification_parts(cert) == <<cert.name, cert.issuing_organization>>
project_parts(proj) == <<proj.title, proj.description, proj.technologies>>

extract_resume_text(resume) ==
    LET text_parts == <<resume.full_name, resume.email, resume.summary>>
                      \o extend_all([k \in DOMAIN resume.experiences |->
                                        experience_parts(resume.experiences[k])], 1)
                      \o extend_all([k \in DOMAIN resume.educations |->
                                        education_parts(resume.educations[k])], 1)
                      \o extend_all([k \in DOMAIN resume.skills |->
                                        skill_parts(resume.skills[k])], 1)
                      \o extend_all([k \in DOMAIN resume.certifications |->
                                        certification_parts(resume.certifications[k])], 1)
                      \o extend_all([k \in DOMAIN resume.projects |->
                                        project_parts(resume.projects[k])], 1)
    IN  join(<<" ">>, filter_none(text_parts))

\* ATSAnalyzer(resume, job_description): the attributes __init__ sets
ATSAnalyzer(resume, job_description) ==
    [resume          |-> resume,
     job_description |-> lower(job_description),
     resume_text     |-> lower(extract_resume_text(resume))]

-----------------------------------------------------------------------------
(* ATSAnalyzer.analyze and ATSAnalyzer.get_detailed_report                 *)

\* the slices matched_kw[:10], missing_kw[:10] of get_detailed_report
ReportListLimit == 10

\* The local variables of analyze() before it saves, and of
\* get_detailed_report(); required_skills is the list that
\* _extract_required_skills() returned inside check_required_skills.
scores(self, required_skills) ==
    LET kw          == calculate_keyword_match(self.job_description, self.resume_text)
        sk          == check_required_skills(required_skills, self.resume_text)
        fmt         == check_formatting(self.resume)
        readability == calculate_readability(self.resume_text)
    IN  IF Raised(fmt) THEN fmt ELSE
        [keyword_score  |-> kw.score,
         matched_kw     |-> kw.matched,
         missing_kw     |-> kw.missing,
         density        |-> kw.density,
         skill_score    |-> sk.score,
         found_skills   |-> sk.found,
         missing_skills |-> sk.missing,
         format_score   |-> fmt.score,
         format_issues  |-> fmt.issues,
         readability    |-> readability,
         overall_score  |-> weighted_score(kw.score, sk.score, fmt.score, readability),
         suggestions    |-> generate_suggestions(kw.score, sk.score, fmt.score,
                                                 kw.missing, sk.missing, fmt.issues)]

\* a Python str (or None), with its type, in a place made for a bool
str_value(text) == [type |-> IF text = None THEN "NoneType" ELSE "str", value |-> text]

\* self.resume.email and self.resume.phone: the first operand when it is
\* empty, else the second; both are str
email_and_phone(resume) ==
    IF falsy(resume.email) THEN str_value(resume.email) ELSE str_value(resume.phone)

\* the keyword arguments of ATSAnalysis.objects.create(...)
new_analysis(self, locals, id, now) ==
    [id                          |-> id,
     resume                      |-> self.resume.id,
     job_description             |-> self.job_description,
     score                       |-> locals.overall_score,
     matched_keywords            |-> locals.matched_kw,
     missing_keywords            |-> locals.missing_kw,
     keyword_density             |-> locals.density,
     suggestions                 |-> locals.suggestions,
     has_contact_info            |-> email_and_phone(self.resume),
     has_clear_sections          |-> (self.resume.experiences # <<>> /\ self.resume.skills # <<>>),
     has_measurable_achievements |->
         ~contains(lower(join(<<" ">>, locals.format_issues)), QuantifiableAchievements),
     readability_score           |-> locals.readability,
     created_at                  |-> now]

\* (mutant) the report carries the lists as analyze stores them
detailed_report_uncut(locals) ==
    IF Raised(locals) THEN locals ELSE
    [overall_score    |-> locals.overall_score,
     breakdown        |-> [keyword_match |-> locals.keyword_score,
                           skill_match   |-> locals.skill_score,
                           formatting    |-> locals.format_score,
                           readability   |-> locals.readability],
     matched_keywords |-> locals.matched_kw,
     missing_keywords |-> locals.missing_kw,
     found_skills     |-> locals.found_skills,
     missing_skills   |-> locals.missing_skills,
     format_issues    |-> locals.format_issues,
     suggestions      |-> locals.suggestions]

\* the dict get_detailed_report() returns, or the exception of
\* check_formatting that leaves it
detailed_report(locals) ==
    IF Raised(locals) THEN locals ELSE
    [overall_score    |-> locals.overall_score,
     breakdown        |-> [keyword_match |-> locals.keyword_score,
                           skill_match   |-> locals.skill_score,
                           formatting    |-> locals.format_score,
                           readability   |-> locals.readability],
     matched_keywords |-> Take(locals.matched_kw, ReportListLimit),
     missing_keywords |-> Take(locals.missing_kw, ReportListLimit),
     found_skills     |-> locals.found_skills,
     missing_skills   |-> locals.missing_skills,
     format_issues    |-> locals.format_issues,
     suggestions      |-> locals.suggestions]

-----------------------------------------------------------------------------
(* State shared by the specifications.                                     *)

\* no call made yet
NoCall == [done |-> FALSE]
Returned(value) == [done |-> TRUE, value |-> value]

\* a specification of one method leaves the database and the request alone
NoRow == [id |-> 0]
DatabaseIdle ==
    /\ Resume = NoRow
    /\ ATSAnalysis = <<>>
    /\ request = EmptyText
    /\ frame = NoCall
    /\ report = NoCall
    /\ clock = 0

\* every text of at most n characters over the alphabet
TextsOver(alphabet, n) == UNION {[1..k -> alphabet] : k \in 0..n}

\* the words of a text joined by single spaces
Words(words) == join(<<" ">>, words)

-----------------------------------------------------------------------------
(* SpecKeywords: direct calls of _extract_keywords(text, min_length,       *)
(* max_keywords) on lowercase texts.                                       *)

MaxTextLen == 5
MaxMinLength == 3

KeywordAlphabet == {"a", "s", "1", ".", " "}

python == <<"p","y","t","h","o","n">>

\* 'the a is in python python python'
StopWordExample ==
    Words(<<<<"t","h","e">>, <<"a">>, <<"i","s">>, <<"i","n">>, python, python, python>>)

\* 'api sql go sql go'
FrequencyExample ==
    <<"a","p","i"," ","s","q","l"," ","g","o"," ","s","q","l"," ","g","o">>

KeywordTexts ==
    TextsOver(KeywordAlphabet, MaxTextLen)
    \cup { StopWordExample, FrequencyExample,
           <<"c","+","+"," ","3","d"," ","n","o","d","e",".","j","s"," ","c","i","/","c","d">>,
           <<"p","y","t","h","o","n","3"," ","a","p","i","_","k","e","y"," ","e","-","m","a","i","l">> }

InitKeywords ==
    /\ DatabaseIdle
    /\ args \in [text : KeywordTexts,
                 min_length : 1..MaxMinLength,
                 max_keywords : {1, 2, DefaultMaxKeywords}]
    /\ ret = NoCall

ExtractKeywords ==
    /\ ~ret.done
    /\ ret' = Returned(extract_keywords(args.text, args.min_length, args.max_keywords))
    /\ UNCHANGED <<Resume, ATSAnalysis, request, frame, report, clock, args>>

NextKeywords == ExtractKeywords

SpecKeywords == InitKeywords /\ [][NextKeywords]_vars

\* the number of times word stands in text as a whole token, that is between
\* two word boundaries
TokenCount(text, word) ==
    Cardinality({i \in 1..(Len(text) - Len(word) + 1) :
                    /\ SubSeq(text, i, i + Len(word) - 1) = word
                    /\ IsWordBoundary(text, i)
                    /\ IsWordBoundary(text, i + Len(word))})

\* C5: every key _extract_keywords returns is made of the letters a-z only, is
\* at least min_length long, is no stop word, and is mapped to the number of
\* its whole-token occurrences in the text; a whitespace-separated token with
\* a digit or punctuation in it, or shorter than min_length, is no key; and
\* 'the a is in python python python' gives exactly {python: 3}.
C5_KeysAreCountedWords ==
    ret.done =>
        /\ \A i \in DOMAIN ret.value :
              LET key == ret.value[i][1]
              IN  /\ \A c \in DOMAIN key : key[c] \in Lower
                  /\ Len(key) >= args.min_length
                  /\ key \notin stop_words
                  /\ ret.value[i][2] = TokenCount(args.text, key)
                  /\ ret.value[i][2] >= 1
        /\ \A t \in {split(args.text)[h] : h \in DOMAIN split(args.text)} :
              ((\E c \in DOMAIN t : t[c] \notin Lower) \/ Len(t) < args.min_length)
                  => t \notin dict_keys(ret.value)
        /\ (args.text = StopWordExample /\ args.min_length = 3)
              => ret.value = <<<<python, 3>>>>

\* a text with a stop word, a short token, a token with a digit and a word
\* that is returned with a count above one
C5_Witness ==
    /\ ret.done
    /\ args.text = StopWordExample
    /\ args.min_length = 3
    /\ ret.value # <<>>

\* the words of a text that can be keywords: whole tokens of letters, at
\* least min_length long, that are no stop words
Candidates(text, min_length) ==
    LET tokens == {t \in (DOMAIN text) \X (DOMAIN text) :
                      /\ t[2] - t[1] + 1 >= min_length
                      /\ \A c \in t[1]..t[2] : text[c] \in Lower
                      /\ IsWordBoundary(text, t[1])
                      /\ IsWordBoundary(text, t[2] + 1)}
    IN  {SubSeq(text, t[1], t[2]) : t \in tokens} \ stop_words

\* word stands at position i of text as a whole token
TokenAt(text, word, i) ==
    /\ i + Len(word) - 1 <= Len(text)
    /\ SubSeq(text, i, i + Len(word) - 1) = word
    /\ IsWordBoundary(text, i)
    /\ IsWordBoundary(text, i + Len(word))

\* where a word first stands in a text as a whole token
FirstOccurrence(text, word) ==
    CHOOSE i \in DOMAIN text :
        TokenAt(text, word, i) /\ \A h \in 1..(i - 1) : ~TokenAt(text, word, h)

\* C20: extract_keywords returns at most max_keywords entries ordered by
\* descending frequency, with keywords of equal frequency in the order of
\* their first occurrence in the text; every keyword left out has a
\* frequency no higher than every keyword kept, and empty text gives an
\* empty mapping.
C20_MostFrequentFirst ==
    ret.done =>
        LET result   == ret.value
            kept     == dict_keys(result)
            left_out == Candidates(args.text, args.min_length) \ kept
        IN  /\ Len(result) <= args.max_keywords
            /\ \A i \in 1..(Len(result) - 1) :
                  \/ result[i][2] > result[i + 1][2]
                  \/ /\ result[i][2] = result[i + 1][2]
                     /\ FirstOccurrence(args.text, result[i][1])
                            < FirstOccurrence(args.text, result[i + 1][1])
            /\ \A word \in left_out :
                  /\ Len(result) = args.max_keywords
                  /\ \A i \in DOMAIN result :
                        TokenCount(args.text, word) <= result[i][2]
            /\ args.text = EmptyText => result = <<>>

\* 'api sql go sql go' cut to two keywords: sql and go, both counted twice,
\* in the order of their first occurrence, and api, counted once, left out
C20_Witness ==
    /\ ret.done
    /\ args.text = FrequencyExample
    /\ args.min_length = 1
    /\ args.max_keywords = 2
    /\ ret.value = <<<<<<"s","q","l">>, 2>>, <<<<"g","o">>, 2>>>>

\* the empty text
C20_WitnessEmpty ==
    /\ ret.done
    /\ args.text = EmptyText
    /\ ret.value = <<>>

-----------------------------------------------------------------------------
(* SpecMatch: direct calls of calculate_keyword_match() on an analyzer     *)
(* whose job_description and resume_text are the arguments.                *)

MaxJobWords == 3
MaxResumeWords == 2

java == <<"j","a","v","a">>
javascript == <<"j","a","v","a","s","c","r","i","p","t">>
sql == <<"s","q","l">>
the == <<"t","h","e">>
go == <<"g","o">>

\* every text of at most n words of the vocabulary, joined by spaces
WordTexts(vocabulary, n) ==
    {Words(ws) : ws \in UNION {[1..k -> vocabulary] : k \in 0..n}}

\* n distinct three-letter words, none of them a stop word
FillerLetters == <<"b","c","d","f","g","k","l","m","n">>
FillerWord(i) ==
    <<FillerLetters[((i - 1) \div 9) + 1], FillerLetters[((i - 1) % 9) + 1], "q">>
Fillers(n) ==
    [p \in 1..(4 * n - 1) |->
        IF p % 4 = 0 THEN " " ELSE FillerWord(((p - 1) \div 4) + 1)[p % 4]]

\* a resume text of n distinct words, each used once, that names python last
Crowded(n) == Fillers(n) \o <<" ">> \o python

MatchJobTexts == WordTexts({python, java, sql, the, go}, MaxJobWords)

MatchResumeTexts == WordTexts({python, java, javascript, sql}, MaxResumeWords)

\* resume texts of many distinct words, against the job descriptions that ask
\* for the word they name last
CrowdedResumeTexts == {Crowded(DefaultMaxKeywords - 1), Crowded(DefaultMaxKeywords)}
CrowdedJobTexts == {python, Words(<<python, sql>>)}

InitMatch ==
    /\ DatabaseIdle
    /\ args \in [job_description : MatchJobTexts, resume_text : MatchResumeTexts]
               \cup [job_description : CrowdedJobTexts, resume_text : CrowdedResumeTexts]
    /\ ret = NoCall

CalculateKeywordMatch ==
    /\ ~ret.done
    /\ ret' = Returned(calculate_keyword_match(args.job_description, args.resume_text))
    /\ UNCHANGED <<Resume, ATSAnalysis, request, frame, report, clock, args>>

NextMatch == CalculateKeywordMatch

SpecMatch == InitMatch /\ [][NextMatch]_vars

\* some whole token of the text is a word of three or more letters a-z that
\* is no stop word
HasKeyword(text) ==
    \E i \in DOMAIN text : \E j \in i..Len(text) :
        /\ j - i + 1 >= 3
        /\ \A c \in i..j : text[c] \in Lower
        /\ IsWordBoundary(text, i)
        /\ IsWordBoundary(text, j + 1)
        /\ SubSeq(text, i, j) \notin stop_words

\* C3: when the job description is empty or yields no keyword, the keyword
\* score is 0 and the matched list, the missing list and the density mapping
\* are empty, for every resume text (and the call returns: no division by the
\* empty keyword count is evaluated).
C3_NoKeywordsScoreZero ==
    (ret.done /\ ~HasKeyword(args.job_description)) =>
        /\ ret.value.score = 0
        /\ ret.value.matched = <<>>
        /\ ret.value.missing = <<>>
        /\ ret.value.density = <<>>

\* an empty job description, and one of a stop word and a short word, each
\* against a resume text that has keywords
C3_Witness ==
    /\ ret.done
    /\ args.job_description \in {EmptyText, Words(<<the, go>>)}
    /\ HasKeyword(args.resume_text)
    /\ ret.value.score = 0

\* C4: a job-description keyword is in the matched list if and only if it
\* occurs at least once as a whole keyword token in the resume text, and in
\* the missing list otherwise, however many other distinct words the resume
\* text has.
C4_MatchedIffInResume ==
    ret.done =>
        \A kw \in dict_keys(extract_keywords(args.job_description,
                                             DefaultMinLength, DefaultMaxKeywords)) :
            LET in_matched == \E i \in DOMAIN ret.value.matched : ret.value.matched[i] = kw
                in_missing == \E i \in DOMAIN ret.value.missing : ret.value.missing[i] = kw
            IN  /\ in_matched <=> (TokenCount(args.resume_text, kw) >= 1)
                /\ in_missing <=> (TokenCount(args.resume_text, kw) = 0)

-----------------------------------------------------------------------------
(* SpecSkills: direct calls of check_required_skills() on an analyzer      *)
(* whose job_description and resume_text are the arguments.                *)

MaxSkillJobWords == 3
MaxSkillResumeWords == 2

machine == <<"m","a","c","h","i","n","e">>
learning == <<"l","e","a","r","n","i","n","g">>
machine_learning == <<"m","a","c","h","i","n","e"," ","l","e","a","r","n","i","n","g">>
django == <<"d","j","a","n","g","o">>
aws == <<"a","w","s">>
docker == <<"d","o","c","k","e","r">>
agile == <<"a","g","i","l","e">>

\* 'Python, Django, AWS, Docker, Agile', lowercased by __init__
FiveSkills == <<python, django, aws, docker, agile>>
FiveSkillsJob == join(CommaSpace, FiveSkills)

\* the texts that name the skills of one subset of FiveSkills, in order
RECURSIVE SubSeqOf(_, _)
SubSeqOf(s, keep) ==
    IF s = <<>> THEN <<>>
    ELSE (IF Len(s) \in keep THEN SubSeqOf(SubSeq(s, 1, Len(s) - 1), keep) \o <<s[Len(s)]>>
          ELSE SubSeqOf(SubSeq(s, 1, Len(s) - 1), keep))

SkillJobTexts ==
    WordTexts({java, javascript, go, machine_learning}, MaxSkillJobWords)
    \cup {FiveSkillsJob, Words(<<learning, machine>>)}

SkillResumeTexts ==
    WordTexts({java, javascript, go}, MaxSkillResumeWords)
    \cup {machine_learning, Words(<<learning, machine>>)}
    \cup {Words(SubSeqOf(FiveSkills, keep)) : keep \in SUBSET (1..5)}

InitSkills ==
    /\ DatabaseIdle
    /\ args \in [job_description : SkillJobTexts, resume_text : SkillResumeTexts]
    /\ ret = NoCall

CheckRequiredSkills ==
    /\ ~ret.done
    /\ \E required_skills \in extract_required_skills(args.job_description) :
          ret' = Returned([required_skills |-> required_skills,
                           result |-> check_required_skills(required_skills, args.resume_text)])
    /\ UNCHANGED <<Resume, ATSAnalysis, request, frame, report, clock, args>>

NextSkills == CheckRequiredSkills

SpecSkills == InitSkills /\ [][NextSkills]_vars

\* needle stands in hay at position i, character by character
OccursAt(needle, hay, i) ==
    \A c \in DOMAIN needle : i + c - 1 <= Len(hay) /\ hay[i + c - 1] = needle[c]

OccursIn(needle, hay) == \E i \in 1..Len(hay) : OccursAt(needle, hay, i)

\* some alternative of a skill pattern stands in the text between two word
\* boundaries
NamesSkill(text) ==
    \E p \in DOMAIN skill_patterns : \E a \in DOMAIN skill_patterns[p] :
        \E i \in 1..Len(text) :
            /\ OccursAt(skill_patterns[p][a], text, i)
            /\ IsWordBoundary(text, i)
            /\ IsWordBoundary(text, i + Len(skill_patterns[p][a]))

Elements(s) == {s[i] : i \in DOMAIN s}

\* C6: found and missing split the required skills (none in both, none left
\* out, none twice), and a skill is found if and only if it is a literal
\* substring of the resume text, word boundaries playing no part: java is
\* found in a resume that only says javascript, machine learning only where
\* that exact string stands.
C6_FoundIffSubstring ==
    ret.done =>
        LET required == ret.value.required_skills
            found    == ret.value.result.found
            missing  == ret.value.result.missing
        IN  /\ Elements(found) \cup Elements(missing) = Elements(required)
            /\ Elements(found) \cap Elements(missing) = {}
            /\ Len(found) + Len(missing) = Cardinality(Elements(required))
            /\ \A s \in Elements(required) :
                  s \in Elements(found) <=> OccursIn(s, args.resume_text)
            /\ (java \in Elements(required) /\ args.resume_text = javascript)
                  => java \in Elements(found)
            /\ (machine_learning \in Elements(required)
                  /\ args.resume_text # machine_learning)
                  => machine_learning \in Elements(missing)

\* java is required and the resume text says only javascript
C6_Witness ==
    /\ ret.done
    /\ java \in Elements(ret.value.required_skills)
    /\ args.resume_text = javascript
    /\ java \in Elements(ret.value.result.found)

\* C7: with no recognised skill in the job description the skill score is 100
\* and both lists are empty; otherwise the score is 100*|found|/|required|
\* rounded to the nearest integer, so the job description naming python,
\* django, aws, docker and agile scores 20 for each of the five that stands
\* in the resume text.
C7_SkillScore ==
    ret.done =>
        LET required == ret.value.required_skills
            result   == ret.value.result
            n        == Len(required)
        IN  /\ ~NamesSkill(args.job_description)
                  => (result.score = 100 /\ result.found = <<>> /\ result.missing = <<>>)
            /\ n > 0 =>
                  /\ 2 * (n * result.score - 100 * Len(result.found)) <= n
                  /\ 2 * (100 * Len(result.found) - n * result.score) <= n
            /\ args.job_description = FiveSkillsJob =>
                  /\ Elements(required) = Elements(FiveSkills)
                  /\ result.score =
                        20 * Cardinality({s \in Elements(FiveSkills) : OccursIn(s, args.resume_text)})

\* the five-skill job description against a resume text naming some but not
\* all of the five
C7_Witness ==
    /\ ret.done
    /\ args.job_description = FiveSkillsJob
    /\ ret.value.result.score = 60

\* a job description that names no skill
C7_WitnessNoSkill ==
    /\ ret.done
    /\ args.job_description = Words(<<learning, machine>>)
    /\ ret.value.result.score = 100

\* three skills required and two of them found: 66.67 is rounded to 67
C7_WitnessRounded ==
    /\ ret.done
    /\ Len(ret.value.required_skills) = 3
    /\ ret.value.result.score = 67

-----------------------------------------------------------------------------
(* Resume rows.                                                            *)

\* n copies of a word, separated by single spaces
Repeat(word, n) ==
    [p \in 1..(n * (Len(word) + 1) - 1) |->
        IF p % (Len(word) + 1) = 0 THEN " " ELSE word[p % (Len(word) + 1)]]

SamDoe == <<"S","a","m"," ","D","o","e">>
Email == <<"s","a","m","@","d","o","e",".","i","o">>
Phone == <<"5","5","5","-","0","1","0","0">>

\* an experience whose description has no digit, and one whose has
PlainExperience ==
    [company     |-> <<"A","c","m","e">>,
     position    |-> <<"D","e","v","e","l","o","p","e","r">>,
     description |-> <<"B","u","i","l","t"," ","p","y","t","h","o","n"," ","a","p","i","s">>]

MetricExperience ==
    [company     |-> <<"I","n","i","t","e","c","h">>,
     position    |-> <<"L","e","a","d">>,
     description |-> <<"C","u","t"," ","c","o","s","t","s"," ","3","0","%">>]

\* a Resume row without related rows, never analysed (last_ats_check is null)
BlankResume ==
    [id             |-> 1,
     full_name      |-> SamDoe,
     email          |-> EmptyText,
     phone          |-> EmptyText,
     location       |-> EmptyText,
     summary        |-> EmptyText,
     experiences    |-> <<>>,
     educations     |-> <<>>,
     skills         |-> <<>>,
     certifications |-> <<>>,
     projects       |-> <<>>,
     ats_score      |-> 0,
     last_ats_check |-> 0]

-----------------------------------------------------------------------------
(* SpecFormat: direct calls of check_formatting() on an analyzer of the    *)
(* resume that is the argument.                                            *)

\* summaries of 0, 1, 19, 20, 21, 150 and 151 words, one of blanks only and
\* an absent one
FormatSummaries ==
    {Repeat(<<"w">>, n) : n \in {0, 1, 19, 20, 21, 150, 151}} \cup {<<" ", " ">>, None}

FormatResumes ==
    {[BlankResume EXCEPT !.email = e, !.phone = p, !.experiences = x,
                         !.skills = s, !.summary = sm] :
        e \in {EmptyText, Email},
        p \in {EmptyText, Phone},
        x \in {<<>>, <<PlainExperience>>, <<MetricExperience>>,
               <<PlainExperience, MetricExperience>>},
        s \in {<<>>, <<[name |-> python]>>},
        sm \in FormatSummaries}

InitFormat ==
    /\ DatabaseIdle
    /\ args \in [resume : FormatResumes]
    /\ ret = NoCall

CheckFormatting ==
    /\ ~ret.done
    /\ ret' = Returned(check_formatting(args.resume))
    /\ UNCHANGED <<Resume, ATSAnalysis, request, frame, report, clock, args>>

NextFormat == CheckFormatting

SpecFormat == InitFormat /\ [][NextFormat]_vars

\* the number of words of a text: the places where a run of non-blanks starts
WordCount(text) ==
    Cardinality({i \in DOMAIN text :
                    text[i] \notin Whitespace /\ (i = 1 \/ text[i - 1] \in Whitespace)})

\* the deductions of a resume, each with its issue, in the order of the checks
Deductions(r) ==
    <<[applies |-> r.email = EmptyText, points |-> 10, issue |-> MissingEmail],
      [applies |-> r.phone = EmptyText, points |-> 5, issue |-> MissingPhone],
      [applies |-> Len(r.experiences) = 0, points |-> 20, issue |-> NoExperience],
      [applies |-> Len(r.skills) = 0, points |-> 15, issue |-> NoSkills],
      [applies |-> \A e \in DOMAIN r.experiences :
                      \A c \in DOMAIN r.experiences[e].description :
                          r.experiences[e].description[c] \notin Digits,
       points |-> 10, issue |-> NoMetrics],
      [applies |-> falsy(r.summary), points |-> 10, issue |-> MissingSummary],
      [applies |-> ~falsy(r.summary) /\ WordCount(r.summary) < 20,
       points |-> 5, issue |-> SummaryTooShort],
      [applies |-> ~falsy(r.summary) /\ WordCount(r.summary) > 150,
       points |-> 5, issue |-> SummaryTooLong]>>

\* C8: check_formatting returns 100 minus the sum of the deductions whose
\* condition holds (email 10, phone 5, no experience 20, no skill 15, no digit
\* in any experience description 10, summary 5 or 10), each condition judged
\* on its own, and the issues are the messages of the applied deductions in
\* the order email, phone, experience, skills, metrics, summary; email set,
\* phone blank, one experience without digits, one skill and no summary give
\* 75 with the issues phone, metrics, summary.
C8_FormatDeductions ==
    ret.done =>
        LET ded     == Deductions(args.resume)
            applied == SelectSeq(ded, LAMBDA x : x.applies)
            total   == LET RECURSIVE Sum(_)
                           Sum(k) == IF k = 0 THEN 0 ELSE applied[k].points + Sum(k - 1)
                       IN  Sum(Len(applied))
        IN  /\ ret.value.score = 100 - total
            /\ ret.value.issues = [k \in DOMAIN applied |-> applied[k].issue]
            /\ ( /\ args.resume.email # EmptyText
                 /\ args.resume.phone = EmptyText
                 /\ args.resume.experiences = <<PlainExperience>>
                 /\ Len(args.resume.skills) = 1
                 /\ args.resume.summary = EmptyText )
               => /\ ret.value.score = 75
                  /\ ret.value.issues = <<MissingPhone, NoMetrics, MissingSummary>>

\* the example resume: email set, phone blank, one experience without digits,
\* one skill, no summary
C8_Witness ==
    /\ ret.done
    /\ args.resume.email # EmptyText
    /\ args.resume.phone = EmptyText
    /\ args.resume.experiences = <<PlainExperience>>
    /\ Len(args.resume.skills) = 1
    /\ args.resume.summary = EmptyText
    /\ ret.value.score = 75

\* the points of all the deductions that apply to a resume
DeductedPoints(r) ==
    LET applied == SelectSeq(Deductions(r), LAMBDA x : x.applies)
        RECURSIVE Sum(_)
        Sum(k) == IF k = 0 THEN 0 ELSE applied[k].points + Sum(k - 1)
    IN  Sum(Len(applied))

\* C28: the format score is a multiple of 5 from 30 to 100: the deductions
\* add up to 70 at most, so 100 minus the deductions is never below 0 and the
\* floor changes nothing; and whenever 'No work experience listed' is among
\* the issues, so is the issue about quantifiable achievements, and the score
\* is 70 or less.
C28_ScoreFromThirty ==
    ret.done =>
        LET has(issue) == \E k \in DOMAIN ret.value.issues : ret.value.issues[k] = issue
        IN  /\ ret.value.score \in {5 * n : n \in 6..20}
            /\ DeductedPoints(args.resume) <= 70
            /\ ret.value.score = 100 - DeductedPoints(args.resume)
            /\ has(NoExperience) => has(NoMetrics) /\ ret.value.score <= 70

\* nothing filled in: all six checks deduct, the score is 30
C28_Witness ==
    /\ ret.done
    /\ args.resume = BlankResume
    /\ ret.value.score = 30
    /\ Len(ret.value.issues) = 6

\* no experience and nothing else amiss: 70
C28_WitnessSeventy ==
    /\ ret.done
    /\ args.resume.experiences = <<>>
    /\ ret.value.score = 70
    /\ ret.value.issues = <<NoExperience, NoMetrics>>

\* the issues about the summary among the issues returned, in their order
SummaryIssues(issues) ==
    SelectSeq(issues, LAMBDA issue :
                         issue \in {MissingSummary, SummaryTooShort, SummaryTooLong})

\* the points lost on the summary: what is missing to 100 after the
\* deductions for email, phone, experience, skills and metrics
SummaryPoints(r, score) ==
    LET other == SelectSeq(SubSeq(Deductions(r), 1, 5), LAMBDA x : x.applies)
        lost  == LET RECURSIVE Sum(_)
                     Sum(k) == IF k = 0 THEN 0 ELSE other[k].points + Sum(k - 1)
                 IN  Sum(Len(other))
    IN  100 - lost - score

\* C22: at most one summary-related issue is ever reported by
\* check_formatting: an empty or absent summary gives 'Missing professional
\* summary' (10 points), a summary of fewer than 20 whitespace-separated
\* words gives 'too short' (5 points), one of more than 150 words gives 'too
\* long' (5 points), and a summary of 20 to 150 words gives no summary issue.
C22_OneSummaryIssue ==
    ret.done =>
        LET summary == args.resume.summary
            words   == WordCount(summary)
            about   == SummaryIssues(ret.value.issues)
            points  == SummaryPoints(args.resume, ret.value.score)
        IN  /\ Len(about) <= 1
            /\ falsy(summary) => (about = <<MissingSummary>> /\ points = 10)
            /\ (~falsy(summary) /\ words < 20) => (about = <<SummaryTooShort>> /\ points = 5)
            /\ (~falsy(summary) /\ words > 150) => (about = <<SummaryTooLong>> /\ points = 5)
            /\ (~falsy(summary) /\ words >= 20 /\ words <= 150)
                  => (about = <<>> /\ points = 0)

\* a summary of blanks only is not empty and has no word: too short
C22_Witness ==
    /\ ret.done
    /\ args.resume.summary = <<" ", " ">>
    /\ SummaryIssues(ret.value.issues) = <<SummaryTooShort>>

\* an absent summary, one of 151 words and one of 150
C22_WitnessAbsent ==
    /\ ret.done
    /\ args.resume.summary = None
    /\ SummaryIssues(ret.value.issues) = <<MissingSummary>>

C22_WitnessLong ==
    /\ ret.done
    /\ WordCount(args.resume.summary) = 151
    /\ SummaryIssues(ret.value.issues) = <<SummaryTooLong>>

C22_WitnessFits ==
    /\ ret.done
    /\ WordCount(args.resume.summary) = 150
    /\ SummaryIssues(ret.value.issues) = <<>>

-----------------------------------------------------------------------------
(* SpecReadability: direct calls of calculate_readability() on an analyzer *)
(* whose resume_text is the argument.                                      *)

MaxReadWords == 76

\* the runs of terminators put after the first and after the last word
TerminatorRuns == {<<>>, <<".">>, <<"!", "?">>}

\* n words, the first followed by one run and the last by another
ReadText(n, first_run, last_run) ==
    IF n = 0 THEN first_run \o last_run
    ELSE IF n = 1 THEN <<"x">> \o last_run
    ELSE IF n = 2 THEN <<"x">> \o first_run \o <<" ", "x">> \o last_run
    ELSE <<"x">> \o first_run \o <<" ">> \o Repeat(<<"x">>, n - 2) \o <<" ", "x">> \o last_run

ReadTexts ==
    {ReadText(n, f, l) : n \in 0..MaxReadWords, f \in TerminatorRuns, l \in TerminatorRuns}
    \cup {<<"x", " ", ".", " ", "x">>, <<" ", " ">>, <<".", "x", ".", ".", "x", "!">>}

InitReadability ==
    /\ DatabaseIdle
    /\ args \in [resume_text : ReadTexts]
    /\ ret = NoCall

CalculateReadability ==
    /\ ~ret.done
    /\ ret' = Returned(calculate_readability(args.resume_text))
    /\ UNCHANGED <<Resume, ATSAnalysis, request, frame, report, clock, args>>

NextReadability == CalculateReadability

SpecReadability == InitReadability /\ [][NextReadability]_vars

\* the length of the list re.split gives: one more than the number of runs of
\* terminators
SentenceCount(text) ==
    1 + Cardinality({i \in DOMAIN text :
                        text[i] \in Terminators /\ (i = 1 \/ text[i - 1] \notin Terminators)})

\* C9: calculate_readability returns 0 for an empty text and for a text
\* without words; otherwise, with w words and s sentences (the pieces the
\* split on runs of terminators gives), 100 when 15s <= w <= 20s, 80 when
\* 10s <= w < 15s or 20s < w <= 25s, 60 when w < 10s or w > 25s; never 70.
C9_ReadabilityBands ==
    ret.done =>
        LET w == WordCount(args.resume_text)
            s == SentenceCount(args.resume_text)
        IN  /\ (args.resume_text = EmptyText \/ w = 0) => ret.value = 0
            /\ (w > 0 /\ 15 * s <= w /\ w <= 20 * s) => ret.value = 100
            /\ (w > 0 /\ ((10 * s <= w /\ w < 15 * s) \/ (20 * s < w /\ w <= 25 * s)))
                  => ret.value = 80
            /\ (w > 0 /\ (w < 10 * s \/ w > 25 * s)) => ret.value = 60
            /\ ret.value # 70

\* an average of exactly 15 words over two sentences
C9_Witness ==
    /\ ret.done
    /\ WordCount(args.resume_text) = 30
    /\ SentenceCount(args.resume_text) = 2
    /\ ret.value = 100

\* the number of sentences of a text made of sentences that are each closed
\* by a run of terminators: the number of runs
ClosedSentences(text) ==
    Cardinality({i \in DOMAIN text :
                    text[i] \in Terminators /\ (i = 1 \/ text[i - 1] \notin Terminators)})

\* the text is made of one or more sentences, each closed by a terminator
AllSentencesClosed(text) ==
    /\ text # EmptyText
    /\ text[1] \notin Terminators
    /\ text[Len(text)] \in Terminators
    /\ WordCount(text) > 0

\* C23: the sentence count that calculate_readability divides by is the
\* number of sentences of the text: a run of one or more terminators is a
\* single boundary, and a text made of k >= 1 sentences each closed by a
\* terminator has sentence count k, so one closed sentence of 15 to 20 words
\* scores 100.
C23_SentencesCounted ==
    (ret.done /\ AllSentencesClosed(args.resume_text)) =>
        LET w == WordCount(args.resume_text)
            k == ClosedSentences(args.resume_text)
        IN  /\ (15 * k <= w /\ w <= 20 * k) => ret.value = 100
            /\ ((10 * k <= w /\ w < 15 * k) \/ (20 * k < w /\ w <= 25 * k)) => ret.value = 80
            /\ (w < 10 * k \/ w > 25 * k) => ret.value = 60

-----------------------------------------------------------------------------
(* SpecSuggest: direct calls of generate_suggestions(keyword_score,        *)
(* skill_score, format_score, missing_keywords, missing_skills,            *)
(* format_issues).                                                         *)

MaxMissingKeywords == 6
MaxMissingSkills == 6

KeywordPool == <<python, sql, django, docker, agile, machine, learning, aws>>
SkillPool == <<java, go, sql, aws, docker, agile, django, python>>

SuggestArgs ==
    [keyword_score    : 0..100,
     skill_score      : {0, 69, 70, 100},
     format_score     : {100},
     missing_keywords : {Take(KeywordPool, n) : n \in 0..MaxMissingKeywords},
     missing_skills   : {Take(SkillPool, n) : n \in 0..MaxMissingSkills},
     format_issues    : {<<>>, <<MissingPhone>>, <<MissingPhone, NoMetrics, MissingSummary>>}]

InitSuggest ==
    /\ DatabaseIdle
    /\ args \in SuggestArgs
    /\ ret = NoCall

GenerateSuggestions ==
    /\ ~ret.done
    /\ ret' = Returned(generate_suggestions(args.keyword_score, args.skill_score,
                                            args.format_score, args.missing_keywords,
                                            args.missing_skills, args.format_issues))
    /\ UNCHANGED <<Resume, ATSAnalysis, request, frame, report, clock, args>>

NextSuggest == GenerateSuggestions

SpecSuggest == InitSuggest /\ [][NextSuggest]_vars

\* the suggestions of one category, in list order
OfCategory(suggestions, category) ==
    SelectSeq(suggestions, LAMBDA s : s.category = category)

Min(a, b) == IF a <= b THEN a ELSE b

\* the words named after the prefix of an action are the first n of the list,
\* comma-joined
NamesFirst(action, prefix, words, n) ==
    /\ action = prefix \o join(CommaSpace, SubSeq(words, 1, Min(n, Len(words))))
    /\ \A k \in DOMAIN words :
          OccursIn(words[k], SubSeq(action, Len(prefix) + 1, Len(action))) <=> k <= n

\* C10: generate_suggestions gives exactly one Keywords suggestion when
\* keyword_score < 80 and none when it is 80 or more: of severity high, naming
\* the first five missing keywords at most, comma-joined, when the score is
\* below 60; of severity medium, naming the first three at most, from 60 to
\* 79; never both.
C10_KeywordSuggestion ==
    ret.done =>
        LET kw == OfCategory(ret.value, "Keywords")
        IN  /\ args.keyword_score >= 80 => kw = <<>>
            /\ args.keyword_score < 80 => Len(kw) = 1
            /\ args.keyword_score < 60 =>
                  /\ kw[1].severity = "high"
                  /\ NamesFirst(kw[1].action, FocusPrefix, args.missing_keywords, 5)
            /\ (60 <= args.keyword_score /\ args.keyword_score < 80) =>
                  /\ kw[1].severity = "medium"
                  /\ NamesFirst(kw[1].action, ConsiderPrefix, args.missing_keywords, 3)

\* a score below 60 with six missing keywords: five are named
C10_Witness ==
    /\ ret.done
    /\ args.keyword_score = 59
    /\ Len(args.missing_keywords) = 6
    /\ Len(OfCategory(ret.value, "Keywords")) = 1

\* a score from 60 to 79 with more than three missing keywords
C10_WitnessMedium ==
    /\ ret.done
    /\ args.keyword_score = 60
    /\ Len(args.missing_keywords) = 4
    /\ OfCategory(ret.value, "Keywords")[1].severity = "medium"

\* the General suggestion of generate_suggestions
GeneralSuggestion == Suggestion("General", "low", LooksGreat, ReviewAndUpdate)

\* C11: the suggestion list is never empty, every suggestion has severity
\* low, medium or high, and the list holds the General/low suggestion exactly
\* when it holds no Keywords, Skills or Formatting suggestion, and then the
\* General suggestion is its only element.
C11_GeneralIffNothingElse ==
    ret.done =>
        LET specific == SelectSeq(ret.value,
                                  LAMBDA s : s.category \in {"Keywords", "Skills", "Formatting"})
            general  == OfCategory(ret.value, "General")
        IN  /\ ret.value # <<>>
            /\ \A i \in DOMAIN ret.value : ret.value[i].severity \in {"low", "medium", "high"}
            /\ \A i \in DOMAIN general : general[i] = GeneralSuggestion
            /\ general # <<>> <=> specific = <<>>
            /\ general # <<>> => ret.value = <<GeneralSuggestion>>
            /\ specific = <<>> <=>
                  /\ args.keyword_score >= 80
                  /\ (args.skill_score >= 70 \/ args.missing_skills = <<>>)
                  /\ args.format_issues = <<>>

\* nothing to suggest although keywords and skills are missing: the list is
\* the General suggestion alone
C11_Witness ==
    /\ ret.done
    /\ args.keyword_score = 80
    /\ args.skill_score = 70
    /\ args.missing_skills # <<>>
    /\ args.missing_keywords # <<>>
    /\ args.format_issues = <<>>
    /\ ret.value = <<GeneralSuggestion>>

\* suggestions of the three categories and no General one
C11_WitnessSpecific ==
    /\ ret.done
    /\ Len(ret.value) = 5
    /\ OfCategory(ret.value, "General") = <<>>
    /\ Len(OfCategory(ret.value, "Formatting")) = 3

-----------------------------------------------------------------------------
\* 'Missing 6 required technical skills.'
MissingSix == MissingPrefix \o <<"6">> \o MissingSuffix

\* C24: generate_suggestions gives a Skills suggestion exactly when
\* skill_score < 70 and the list of missing skills is not empty, and never
\* more than one; it has severity high, its message gives the number of
\* missing skills and its action names the first five of them at most,
\* comma-joined.
C24_SkillsSuggestion ==
    ret.done =>
        LET sk == OfCategory(ret.value, "Skills")
        IN  /\ Len(sk) <= 1
            /\ sk # <<>> <=> (args.skill_score < 70 /\ args.missing_skills # <<>>)
            /\ sk # <<>> =>
                  /\ sk[1].severity = "high"
                  /\ sk[1].message = MissingPrefix \o str_int(Len(args.missing_skills))
                                                   \o MissingSuffix
                  /\ NamesFirst(sk[1].action, AddSkillsPrefix, args.missing_skills, 5)

\* a score of 69 with six missing skills: the message counts six, the action
\* names five
C24_Witness ==
    /\ ret.done
    /\ args.skill_score = 69
    /\ Len(args.missing_skills) = 6
    /\ Len(OfCategory(ret.value, "Skills")) = 1
    /\ OfCategory(ret.value, "Skills")[1].message = MissingSix

\* a score of 70 with missing skills: no Skills suggestion
C24_WitnessSeventy ==
    /\ ret.done
    /\ args.skill_score = 70
    /\ args.missing_skills # <<>>
    /\ OfCategory(ret.value, "Skills") = <<>>

\* the place of a category in the order of generate_suggestions
CategoryRank(category) ==
    CASE category = "Keywords"   -> 1
      [] category = "Skills"     -> 2
      [] category = "Formatting" -> 3
      [] category = "General"    -> 4

\* C25: the suggestions come in the order Keywords, Skills, Formatting: no
\* Formatting suggestion stands before a Keywords or Skills suggestion and no
\* Skills suggestion before a Keywords suggestion; there is one Formatting
\* suggestion of severity medium for each format issue, its message is that
\* issue, and they come in the order of the issue list.
C25_CategoryOrder ==
    ret.done =>
        LET fm == OfCategory(ret.value, "Formatting")
        IN  /\ \A i \in DOMAIN ret.value : \A j \in DOMAIN ret.value :
                  i < j => CategoryRank(ret.value[i].category)
                              <= CategoryRank(ret.value[j].category)
            /\ Len(fm) = Len(args.format_issues)
            /\ \A i \in DOMAIN fm :
                  /\ fm[i].severity = "medium"
                  /\ fm[i].message = args.format_issues[i]

\* all three categories at once: five suggestions, Keywords, Skills and the
\* three format issues in their order
C25_Witness ==
    /\ ret.done
    /\ Len(ret.value) = 5
    /\ ret.value[1].category = "Keywords"
    /\ ret.value[2].category = "Skills"
    /\ ret.value[3].message = MissingPhone
    /\ ret.value[4].message = NoMetrics
    /\ ret.value[5].message = MissingSummary

-----------------------------------------------------------------------------
(* Spec: calls of analyze() and of get_detailed_report() on analyzers of   *)
(* one stored resume.  The view ats_analyze builds ATSAnalyzer(resume,     *)
(* job_description) from a posted form and calls analyze(); the methods    *)
(* themselves take any job description, the empty one included.            *)

MaxAnalyses == 2

\* 21 words, one sentence: 'Backend developer with python and django skills
\* who built and shipped web services for retail clients since 2015 using
\* docker daily.'
SeniorSummary ==
    <<"B","a","c","k","e","n","d"," ","d","e","v","e","l","o","p","e","r"," ","w","i","t",
      "h"," ","p","y","t","h","o","n"," ","a","n","d"," ","d","j","a","n","g","o"," ","s",
      "k","i","l","l","s"," ","w","h","o"," ","b","u","i","l","t"," ","a","n","d"," ","s",
      "h","i","p","p","e","d"," ","w","e","b"," ","s","e","r","v","i","c","e","s"," ","f",
      "o","r"," ","r","e","t","a","i","l"," ","c","l","i","e","n","t","s"," ","s","i","n",
      "c","e"," ","2","0","1","5"," ","u","s","i","n","g"," ","d","o","c","k","e","r"," ",
      "d","a","i","l","y",".">>

\* 29 words, no terminator: 'Developer with ten years of practice in java and
\* sql who builds data pipelines and reporting tools for banks and insurers
\* and enjoys mentoring new colleagues across several teams'
ContactSummary ==
    <<"D","e","v","e","l","o","p","e","r"," ","w","i","t","h"," ","t","e","n"," ","y","e",
      "a","r","s"," ","o","f"," ","p","r","a","c","t","i","c","e"," ","i","n"," ","j","a",
      "v","a"," ","a","n","d"," ","s","q","l"," ","w","h","o"," ","b","u","i","l","d","s",
      " ","d","a","t","a"," ","p","i","p","e","l","i","n","e","s"," ","a","n","d"," ","r",
      "e","p","o","r","t","i","n","g"," ","t","o","o","l","s"," ","f","o","r"," ","b","a",
      "n","k","s"," ","a","n","d"," ","i","n","s","u","r","e","r","s"," ","a","n","d"," ",
      "e","n","j","o","y","s"," ","m","e","n","t","o","r","i","n","g"," ","n","e","w"," ",
      "c","o","l","l","e","a","g","u","e","s"," ","a","c","r","o","s","s"," ","s","e","v",
      "e","r","a","l"," ","t","e","a","m","s">>

\* email set, phone blank, one experience without digits, one skill, no summary
JuniorResume ==
    [BlankResume EXCEPT !.email = Email,
                        !.experiences = <<PlainExperience>>,
                        !.skills = <<[name |-> python]>>]

\* contact details and a summary, no related rows
ContactResume ==
    [BlankResume EXCEPT !.email = Email, !.phone = Phone, !.summary = ContactSummary]

\* every section filled in
SeniorResume ==
    [BlankResume EXCEPT
        !.email = Email,
        !.phone = Phone,
        !.location = <<"R","e","m","o","t","e">>,
        !.summary = SeniorSummary,
        !.experiences = <<MetricExperience, PlainExperience>>,
        !.educations = <<[institution    |-> <<"M","I","T">>,
                          field_of_study |-> <<"C","o","m","p","u","t","e","r"," ",
                                               "S","c","i","e","n","c","e">>,
                          degree         |-> "phd"]>>,
        !.skills = <<[name |-> python], [name |-> javascript], [name |-> docker]>>,
        !.certifications = <<[name |-> <<"A","W","S"," ","A","r","c","h","i","t","e","c","t">>,
                              issuing_organization |-> <<"A","m","a","z","o","n">>]>>,
        !.projects = <<[title        |-> <<"T","r","a","c","k","e","r">>,
                        description  |-> <<"I","s","s","u","e"," ","t","r","a","c","k","e","r",
                                           " ","i","n"," ","D","j","a","n","g","o">>,
                        technologies |-> <<"p","y","t","h","o","n",","," ",
                                           "d","o","c","k","e","r">>]>>]

Resumes == {BlankResume, JuniorResume, ContactResume, SeniorResume}

\* '', 'Python and Django', 'Java developer; Machine Learning a plus',
\* 'The a is', 'Go and SQL'
JobDescriptions ==
    { EmptyText,
      <<"P","y","t","h","o","n"," ","a","n","d"," ","D","j","a","n","g","o">>,
      <<"J","a","v","a"," ","d","e","v","e","l","o","p","e","r",";"," ","M","a","c","h","i","n",
        "e"," ","L","e","a","r","n","i","n","g"," ","a"," ","p","l","u","s">>,
      <<"T","h","e"," ","a"," ","i","s">>,
      <<"G","o"," ","a","n","d"," ","S","Q","L">> }

\* a call made with the posted job description, and what it computed
Called(job_description, value) ==
    [done |-> TRUE, job_description |-> job_description, value |-> value]

Init ==
    /\ Resume \in Resumes
    /\ ATSAnalysis = <<>>
    /\ request = EmptyText
    /\ frame = NoCall
    /\ report = NoCall
    /\ clock = 1
    /\ args = NoCall
    /\ ret = NoCall

\* (mutant) the analyzer keeps its lower-cased text in the row it saves
saved_resume_lowered(resume, overall_score, now) ==
    [resume EXCEPT !.ats_score = overall_score, !.last_ats_check = now,
                   !.summary = lower(resume.summary)]

\* self.resume after the two assignments, as resume.save() writes it
saved_resume(resume, overall_score, now) ==
    [resume EXCEPT !.ats_score = overall_score, !.last_ats_check = now]

\* ATSAnalyzer(resume, job_description).analyze(): computes the scores,
\* creates the ATSAnalysis row (created_at is set on insert) and saves the
\* resume with the new score and check time; an exception of
\* check_formatting leaves the method before anything is written
Analyze(job_description) ==
    /\ Len(ATSAnalysis) < MaxAnalyses
    /\ LET self == ATSAnalyzer(Resume, job_description)
       IN  \E required_skills \in extract_required_skills(self.job_description) :
              LET locals == scores(self, required_skills)
              IN  /\ frame' = Called(job_description, locals)
                  /\ IF Raised(locals)
                     THEN UNCHANGED <<ATSAnalysis, Resume, clock>>
                     ELSE /\ ATSAnalysis' =
                                 Append(ATSAnalysis,
                                        new_analysis(self, locals, Len(ATSAnalysis) + 1, clock))
                          /\ Resume' = saved_resume(Resume, locals.overall_score, clock + 1)
                          /\ clock' = clock + 2
    /\ request' = job_description
    /\ UNCHANGED <<report, args, ret>>

\* ATSAnalyzer(resume, job_description).get_detailed_report()
GetDetailedReport(job_description) ==
    /\ LET self == ATSAnalyzer(Resume, job_description)
       IN  \E required_skills \in extract_required_skills(self.job_description) :
              report' = Called(job_description, detailed_report(scores(self, required_skills)))
    /\ UNCHANGED <<Resume, ATSAnalysis, request, frame, clock, args, ret>>

Next ==
    \/ \E job_description \in JobDescriptions : Analyze(job_description)
    \/ \E job_description \in JobDescriptions : GetDetailedReport(job_description)

Spec == Init /\ [][Next]_vars

InRange(score) == score \in 0..100

\* C1: the overall score and the four sub-scores (keyword match, skill match,
\* formatting, readability) that analyze and get_detailed_report produce are
\* integers from 0 to 100, for every resume and job description.
C1_ScoresInRange ==
    /\ frame.done =>
          /\ InRange(frame.value.overall_score)
          /\ InRange(frame.value.keyword_score)
          /\ InRange(frame.value.skill_score)
          /\ InRange(frame.value.format_score)
          /\ InRange(frame.value.readability)
    /\ report.done =>
          /\ InRange(report.value.overall_score)
          /\ InRange(report.value.breakdown.keyword_match)
          /\ InRange(report.value.breakdown.skill_match)
          /\ InRange(report.value.breakdown.formatting)
          /\ InRange(report.value.breakdown.readability)
    /\ \A a \in DOMAIN ATSAnalysis :
          InRange(ATSAnalysis[a].score) /\ InRange(ATSAnalysis[a].readability_score)
    /\ InRange(Resume.ats_score)

\* analyze has stored a score for a job description none of whose keywords
\* the resume has, and get_detailed_report has scored a job description the
\* resume covers in full
C1_Witness ==
    /\ frame.done
    /\ report.done
    /\ frame.value.keyword_score = 0
    /\ frame.value.skill_score = 50
    /\ Len(ATSAnalysis) = 1
    /\ ATSAnalysis[1].score = frame.value.overall_score
    /\ Resume.ats_score = ATSAnalysis[1].score
    /\ report.value.breakdown.keyword_match = 100
    /\ report.value.breakdown.skill_match = 100
    /\ report.value.breakdown.formatting = 100
    /\ report.value.overall_score = 98

\* 100 * overall is within 50 of 35*keyword + 30*skill + 25*format + 10*readability
NearestToWeightedSum(overall, keyword, skill, format, readability) ==
    LET hundredths == 35 * keyword + 30 * skill + 25 * format + 10 * readability
    IN  /\ 100 * overall - hundredths <= 50
        /\ hundredths - 100 * overall <= 50

\* the sub-scores whose double sum round() takes downwards from just below
\* a half are still within 50 hundredths of it
TiesRoundedDown ==
    \A t \in FloatSumBelowHalf :
        NearestToWeightedSum(weighted_score(t[1], t[2], t[3], t[4]), t[1], t[2], t[3], t[4])

\* C2: in analyze and in get_detailed_report alike the overall score is
\* 0.35*keyword + 0.30*skill + 0.25*format + 0.10*readability rounded to the
\* nearest integer: 100 * overall differs from 35*keyword + 30*skill +
\* 25*format + 10*readability by at most 50.
C2_WeightedSum ==
    /\ frame.done =>
          NearestToWeightedSum(frame.value.overall_score, frame.value.keyword_score,
                               frame.value.skill_score, frame.value.format_score,
                               frame.value.readability)
    /\ report.done =>
          NearestToWeightedSum(report.value.overall_score,
                               report.value.breakdown.keyword_match,
                               report.value.breakdown.skill_match,
                               report.value.breakdown.formatting,
                               report.value.breakdown.readability)
    /\ TiesRoundedDown

\* analyze rounded 54.75 up to 55 and get_detailed_report rounded 31.75 up
\* to 32
C2_Witness ==
    /\ frame.done
    /\ report.done
    /\ frame.value.keyword_score = 0 /\ frame.value.skill_score = 100
    /\ frame.value.format_score = 75 /\ frame.value.readability = 60
    /\ frame.value.overall_score = 55
    /\ report.value.breakdown.keyword_match = 20 /\ report.value.breakdown.skill_match = 0
    /\ report.value.breakdown.formatting = 75 /\ report.value.breakdown.readability = 60
    /\ report.value.overall_score = 32

\* analyze rounded 57.25 down to 57
C2_WitnessDown ==
    /\ frame.done
    /\ frame.value.keyword_score = 50 /\ frame.value.skill_score = 50
    /\ frame.value.format_score = 75 /\ frame.value.readability = 60
    /\ frame.value.overall_score = 57

\* the halves 13.5 of analyze and 43.5 of get_detailed_report went to the
\* even neighbours 14 and 44
C2_WitnessHalf ==
    /\ frame.done
    /\ report.done
    /\ frame.value.keyword_score = 0 /\ frame.value.skill_score = 0
    /\ frame.value.format_score = 30 /\ frame.value.readability = 60
    /\ frame.value.overall_score = 14
    /\ report.value.breakdown.keyword_match = 0 /\ report.value.breakdown.skill_match = 100
    /\ report.value.breakdown.formatting = 30 /\ report.value.breakdown.readability = 60
    /\ report.value.overall_score = 44

-----------------------------------------------------------------------------
(* SpecSections: analyze() on stored resumes that have experiences, skills, *)
(* both or neither, with and without numbers in the descriptions.           *)

\* email and phone set, no summary; no, one or two experiences, no or one
\* skill
SectionResumes ==
    {r \in FormatResumes : r.email = Email /\ r.phone = Phone /\ r.summary = EmptyText}

InitSections ==
    /\ Resume \in SectionResumes
    /\ ATSAnalysis = <<>>
    /\ request = EmptyText
    /\ frame = NoCall
    /\ report = NoCall
    /\ clock = 1
    /\ args = NoCall
    /\ ret = NoCall

\* analyze() with '', 'The a is' and 'Go and SQL'
NextSections ==
    \E job_description \in {jd \in JobDescriptions : Len(jd) <= 10} : Analyze(job_description)

SpecSections == InitSections /\ [][NextSections]_vars

\* some experience description of the resume holds a digit
SomeDescriptionHasDigit(r) ==
    \E e \in DOMAIN r.experiences :
        \E c \in DOMAIN r.experiences[e].description :
            r.experiences[e].description[c] \in Digits

\* C26: in every row analyze creates, has_clear_sections is true exactly when
\* the resume has at least one experience and at least one skill, and
\* has_measurable_achievements is true exactly when some experience
\* description holds a digit, which is exactly when the issue about
\* quantifiable achievements is not among the format issues of the call.
C26_SectionFlags ==
    \A i \in DOMAIN ATSAnalysis :
        LET analysis == ATSAnalysis[i]
        IN  /\ analysis.has_clear_sections \in BOOLEAN
            /\ analysis.has_clear_sections
                  <=> (Len(Resume.experiences) >= 1 /\ Len(Resume.skills) >= 1)
            /\ analysis.has_measurable_achievements \in BOOLEAN
            /\ analysis.has_measurable_achievements <=> SomeDescriptionHasDigit(Resume)
            /\ i = Len(ATSAnalysis) =>
                  (analysis.has_measurable_achievements
                      <=> \A k \in DOMAIN frame.value.format_issues :
                             frame.value.format_issues[k] # NoMetrics)

\* two experiences, the second one with a number, and no skill: the sections
\* are not clear, the achievements are measurable
C26_Witness ==
    /\ Len(ATSAnalysis) = 1
    /\ Resume.experiences = <<PlainExperience, MetricExperience>>
    /\ Resume.skills = <<>>
    /\ ~ATSAnalysis[1].has_clear_sections
    /\ ATSAnalysis[1].has_measurable_achievements

\* one experience without a number and one skill: clear sections, nothing
\* measurable, and the issue is reported
C26_WitnessPlain ==
    /\ Len(ATSAnalysis) = 1
    /\ Resume.experiences = <<PlainExperience>>
    /\ Len(Resume.skills) = 1
    /\ ATSAnalysis[1].has_clear_sections
    /\ ~ATSAnalysis[1].has_measurable_achievements
    /\ \E k \in DOMAIN frame.value.format_issues : frame.value.format_issues[k] = NoMetrics

\* a skill and no experience: the sections are not clear
C26_WitnessSkillOnly ==
    /\ Len(ATSAnalysis) = 1
    /\ Resume.experiences = <<>>
    /\ Len(Resume.skills) = 1
    /\ ~ATSAnalysis[1].has_clear_sections

-----------------------------------------------------------------------------
(* SpecLists: analyze() and get_detailed_report() on resumes and job       *)
(* descriptions of many distinct keywords, so that the slices [:20] and    *)
(* [:10] cut.                                                              *)

\* the filler words number from .. to, joined by single spaces
FillerRange(from, to) ==
    [p \in 1..(4 * (to - from + 1) - 1) |->
        IF p % 4 = 0 THEN " " ELSE FillerWord(from + ((p - 1) \div 4))[p % 4]]

\* a resume whose summary is the filler words 1 .. 24
FillerResume == [BlankResume EXCEPT !.summary = FillerRange(1, 24)]

\* the third resume names the filler word 2 three times
ListResumes ==
    {BlankResume, FillerResume,
     [BlankResume EXCEPT !.summary = FillerRange(1, 24) \o <<" ">>
                                     \o Words(<<FillerWord(2), FillerWord(2)>>)]}

\* 22 words of the filler resume; 22 words it lacks; 12 of each; three words
\* of different counts, one of them in the filler resume
ListJobDescriptions ==
    { FillerRange(1, 22),
      FillerRange(30, 51),
      FillerRange(13, 36),
      Words(<<FillerWord(2), FillerWord(30), FillerWord(31), FillerWord(30),
              FillerWord(2), FillerWord(30)>>) }

InitLists ==
    /\ Resume \in ListResumes
    /\ ATSAnalysis = <<>>
    /\ request = EmptyText
    /\ frame = NoCall
    /\ report = NoCall
    /\ clock = 1
    /\ args = NoCall
    /\ ret = NoCall

NextLists ==
    \/ \E job_description \in ListJobDescriptions : Analyze(job_description)
    \/ \E job_description \in ListJobDescriptions : GetDetailedReport(job_description)

SpecLists == InitLists /\ [][NextLists]_vars

\* the keywords of a job description, in the order of the keyword dict
JobKeywords(job_description) ==
    LET jd_keywords == extract_keywords(lower(job_description),
                                        DefaultMinLength, DefaultMaxKeywords)
    IN  [k \in DOMAIN jd_keywords |-> jd_keywords[k][1]]

\* how often a word stands in a job description
Occurrences(word, job_description) ==
    LET words == findall_words(lower(job_description), DefaultMinLength)
    IN  Cardinality({i \in DOMAIN words : words[i] = word})

\* the keywords counted for the stored resume
ResumeKeywords ==
    dict_keys(extract_keywords(ATSAnalyzer(Resume, EmptyText).resume_text,
                               DefaultMinLength, DefaultMaxKeywords))

\* list is the first entries of full, all of them or as many as limit
PrefixUpTo(list, full, limit) ==
    /\ Len(list) = Min(Len(full), limit)
    /\ \A i \in DOMAIN list : list[i] = full[i]

\* the matched and the missing list are the first entries, limit at most, of
\* the job description's matched and missing keywords
ListsCutAt(matched, missing, job_description, limit) ==
    LET keywords == SubSeq(JobKeywords(job_description), 1, Len(JobKeywords(job_description)))
        in_resume == ResumeKeywords
    IN  /\ Len(matched) <= limit
        /\ Len(missing) <= limit
        /\ PrefixUpTo(matched, SelectSeq(keywords, LAMBDA k : k \in in_resume), limit)
        /\ PrefixUpTo(missing, SelectSeq(keywords, LAMBDA k : k \notin in_resume), limit)
        /\ \A i \in 1..(Len(keywords) - 1) :
              Occurrences(keywords[i], job_description)
                  >= Occurrences(keywords[i + 1], job_description)

\* C13: the matched and missing keyword lists of analyze have at most 20
\* entries each and those of get_detailed_report at most 10; each is a prefix
\* of the full list in job-description keyword order (most frequent first),
\* and the report's lists are the first 10 entries of the lists analyze
\* stores for the same input.
C13_ListsArePrefixes ==
    /\ frame.done =>
          /\ ListsCutAt(frame.value.matched_kw, frame.value.missing_kw,
                        frame.job_description, 20)
          /\ ATSAnalysis[Len(ATSAnalysis)].matched_keywords = frame.value.matched_kw
          /\ ATSAnalysis[Len(ATSAnalysis)].missing_keywords = frame.value.missing_kw
    /\ report.done =>
          ListsCutAt(report.value.matched_keywords, report.value.missing_keywords,
                     report.job_description, 10)
    /\ (frame.done /\ report.done /\ frame.job_description = report.job_description) =>
          /\ report.value.matched_keywords = SubSeq(frame.value.matched_kw, 1,
                                                    Min(10, Len(frame.value.matched_kw)))
          /\ report.value.missing_keywords = SubSeq(frame.value.missing_kw, 1,
                                                    Min(10, Len(frame.value.missing_kw)))

\* 22 matched keywords: analyze stores 20 of them and the report shows 10
C13_Witness ==
    /\ frame.done
    /\ report.done
    /\ frame.job_description = report.job_description
    /\ Len(JobKeywords(frame.job_description)) = 22
    /\ Len(frame.value.matched_kw) = 20
    /\ Len(report.value.matched_keywords) = 10

\* 22 missing keywords: analyze stores 20 of them and the report shows 10
C13_WitnessMissing ==
    /\ frame.done
    /\ report.done
    /\ frame.job_description = report.job_description
    /\ Len(frame.value.missing_kw) = 20
    /\ Len(report.value.missing_keywords) = 10

\* twelve matched and twelve missing keywords: analyze stores all of them
C13_WitnessTwelve ==
    /\ frame.done
    /\ report.done
    /\ frame.job_description = report.job_description
    /\ Len(frame.value.matched_kw) = 12
    /\ Len(frame.value.missing_kw) = 12
    /\ Len(report.value.matched_keywords) = 10

-----------------------------------------------------------------------------
(* SpecTotal: the methods of an analyzer of a resume whose text fields may *)
(* be empty or None and whose collections may be empty, called one by one, *)
(* and analyze() and get_detailed_report() on the same resume.             *)

\* an experience whose description is None
AbsentExperience == [PlainExperience EXCEPT !.description = None]

TotalResumes ==
    {[BlankResume EXCEPT !.email = t, !.phone = t, !.location = t, !.summary = t,
                         !.experiences = x] :
        t \in {EmptyText, None},
        x \in {<<>>, <<PlainExperience>>, <<AbsentExperience>>,
               <<PlainExperience, AbsentExperience>>,
               <<MetricExperience, AbsentExperience>>}}

\* 'JAVA java JavaScript' and 'JavaScript'
JavaTwice ==
    <<"J","A","V","A"," ","j","a","v","a"," ","J","a","v","a","S","c","r","i","p","t">>
JavaScriptOnly == <<"J","a","v","a","S","c","r","i","p","t">>

\* '', ' ', 'Python!' and the two above
TotalJobDescriptions ==
    {EmptyText, <<" ">>, <<"P","y","t","h","o","n","!">>, JavaTwice, JavaScriptOnly}

Methods ==
    {"_extract_resume_text", "_extract_required_skills", "calculate_keyword_match",
     "check_required_skills", "check_formatting", "calculate_readability"}

\* how a call ends: with a value, or with the exception that leaves it
Raises(exception) == [done |-> TRUE, raised |-> exception]

call(self, method, required_skills) ==
    CASE method = "_extract_resume_text" ->
            Returned(extract_resume_text(self.resume))
      [] method = "_extract_required_skills" ->
            Returned(required_skills)
      [] method = "calculate_keyword_match" ->
            Returned(calculate_keyword_match(self.job_description, self.resume_text))
      [] method = "check_required_skills" ->
            Returned(check_required_skills(required_skills, self.resume_text))
      [] method = "check_formatting" ->
            LET result == check_formatting(self.resume)
            IN  IF Raised(result) THEN Raises(result.raised) ELSE Returned(result)
      [] method = "calculate_readability" ->
            Returned(calculate_readability(self.resume_text))

InitTotal ==
    /\ Resume \in TotalResumes
    /\ ATSAnalysis = <<>>
    /\ request = EmptyText
    /\ frame = NoCall
    /\ report = NoCall
    /\ clock = 1
    /\ args = NoCall
    /\ ret = NoCall

\* ATSAnalyzer(resume, job_description).method()
CallMethod(method, job_description) ==
    /\ LET self == ATSAnalyzer(Resume, job_description)
       IN  \E required_skills \in extract_required_skills(self.job_description) :
              ret' = call(self, method, required_skills)
    /\ args' = [done |-> TRUE, method |-> method, job_description |-> job_description]
    /\ UNCHANGED <<Resume, ATSAnalysis, request, frame, report, clock>>

NextTotal ==
    \/ \E method \in Methods, job_description \in TotalJobDescriptions :
          CallMethod(method, job_description)
    \/ \E job_description \in {EmptyText, <<" ">>} : Analyze(job_description)
    \/ \E job_description \in {EmptyText, <<" ">>} : GetDetailedReport(job_description)

SpecTotal == InitTotal /\ [][NextTotal]_vars

\* the alternative stands in the lower-cased text between two word
\* boundaries
SkillStandsIn(alternative, text) ==
    \E i \in DOMAIN text :
        /\ OccursAt(alternative, lower(text), i)
        /\ IsWordBoundary(text, i)
        /\ IsWordBoundary(text, i + Len(alternative))

Alternatives == UNION {Elements(skill_patterns[p]) : p \in DOMAIN skill_patterns}

\* C21: extract_required_skills returns a duplicate-free collection of
\* lowercase strings, each being one alternative of the six fixed skill
\* patterns that occurs in the job description delimited by word
\* boundaries, whatever the letter case in the job description; a skill
\* named several times appears once, and a skill name occurring only inside
\* a longer word (java inside javascript) is not returned.
C21_SkillsNamedOnce ==
    (ret.done /\ args.method = "_extract_required_skills") =>
        LET skills == ret.value
        IN  /\ \A i, j \in DOMAIN skills : i # j => skills[i] # skills[j]
            /\ \A i \in DOMAIN skills :
                  /\ \A c \in DOMAIN skills[i] : skills[i][c] \notin Upper
                  /\ skills[i] \in Alternatives
                  /\ SkillStandsIn(skills[i], args.job_description)
            /\ \A alternative \in Alternatives :
                  SkillStandsIn(alternative, args.job_description)
                      => alternative \in Elements(skills)
            /\ args.job_description = JavaScriptOnly => skills = <<javascript>>

\* 'JAVA java JavaScript': java, named twice in two cases, is returned once
C21_Witness ==
    /\ ret.done
    /\ args.method = "_extract_required_skills"
    /\ args.job_description = JavaTwice
    /\ ret.value = <<java, javascript>>

\* 'JavaScript' alone: java is not returned
C21_WitnessInside ==
    /\ ret.done
    /\ args.method = "_extract_required_skills"
    /\ args.job_description = JavaScriptOnly
    /\ ret.value = <<javascript>>

\* C16: text extraction and each of the four sub-score computations return
\* a value and never raise, for any resume (text fields empty or None,
\* collections empty) and any job description.
C16_NeverRaises == ret.done => "value" \in DOMAIN ret

\* a call raises only on a resume with an experience whose description is
\* None, and then it is check_formatting that raises; analyze() and
\* get_detailed_report() raise with it
C16_RaisesOnlyInFormatting ==
    /\ (ret.done /\ "raised" \in DOMAIN ret) =>
          /\ args.method = "check_formatting"
          /\ \E e \in DOMAIN Resume.experiences : Resume.experiences[e].description = None
    /\ (frame.done /\ Raised(frame.value)) => ATSAnalysis = <<>>

\* the same calls on a resume with None fields and no related rows return
C16_WitnessAbsentFields ==
    /\ ret.done
    /\ "value" \in DOMAIN ret
    /\ args.method = "check_formatting"
    /\ Resume.email = None
    /\ Resume.summary = None
    /\ Resume.experiences = <<>>

-----------------------------------------------------------------------------
(* Further properties of analyze() and get_detailed_report() under Spec.   *)

\* C12: the has_contact_info value analyze puts in the result is a boolean,
\* true exactly when the resume's email and phone are both non-empty and
\* false when either is empty; it is never a value of another type.
C12_ContactInfoIsBoolean ==
    \A a \in DOMAIN ATSAnalysis :
        /\ ATSAnalysis[a].has_contact_info.type = "bool"
        /\ ATSAnalysis[a].has_contact_info.value
              <=> (Resume.email # EmptyText /\ Resume.phone # EmptyText)

\* the report agrees with the locals of analyze() in overall score, breakdown
\* and suggestions
ReportAgrees(dict, locals) ==
    /\ dict.overall_score = locals.overall_score
    /\ dict.breakdown.keyword_match = locals.keyword_score
    /\ dict.breakdown.skill_match = locals.skill_score
    /\ dict.breakdown.formatting = locals.format_score
    /\ dict.breakdown.readability = locals.readability
    /\ dict.suggestions = locals.suggestions

\* a call of get_detailed_report leaves the ATSAnalysis rows and the resume,
\* with its ats_score and last_ats_check, as they were
C14_ReportPersistsNothing ==
    [][report' # report => (ATSAnalysis' = ATSAnalysis /\ Resume' = Resume)]_vars

\* C14: get_detailed_report has no persistence side effect (the stored
\* ATSAnalysis rows and the resume's ats_score and last_ats_check are as
\* before the call), and its overall score, breakdown and suggestions equal
\* those analyze computes for the same resume and job description.
C14_ReportLikeAnalyze ==
    [][/\ report' # report =>
             /\ ATSAnalysis' = ATSAnalysis
             /\ Resume'.ats_score = Resume.ats_score
             /\ Resume'.last_ats_check = Resume.last_ats_check
       /\ (frame'.done /\ report'.done /\ frame'.job_description = report'.job_description)
             => ReportAgrees(report'.value, frame'.value)]_vars

\* an ATSAnalysis row without its id and its timestamp
Computed(row) == [row EXCEPT !.id = 0, !.created_at = 0]

\* C15: two runs of the analysis on the same resume snapshot and the same job
\* description yield identical computed fields (scores, matched and missing
\* keywords, density, found and missing skills and their order, format
\* issues, suggestions with the skills named in the Skills action) and
\* differ only in record id and timestamp; an analyze call that came before
\* does not change the outcome of the next.
C15_RunsAgree ==
    /\ \A a, b \in DOMAIN ATSAnalysis :
          ATSAnalysis[a].job_description = ATSAnalysis[b].job_description
              => Computed(ATSAnalysis[a]) = Computed(ATSAnalysis[b])
    /\ (frame.done /\ report.done /\ frame.job_description = report.job_description) =>
          /\ ReportAgrees(report.value, frame.value)
          /\ report.value.found_skills = frame.value.found_skills
          /\ report.value.missing_skills = frame.value.missing_skills
          /\ report.value.format_issues = frame.value.format_issues


\* score is 100 * m / n rounded to a nearest integer, 100 only for m = n and
\* 0 only for m = 0
NearestPercent(score, m, n) ==
    /\ 2 * (100 * m - n * score) <= n
    /\ 2 * (n * score - 100 * m) <= n
    /\ (score = 100) <=> (m = n)
    /\ (score = 0) <=> (m = 0)

\* the keyword score of a job description with keywords, against the stored
\* resume: m counts the job-description keywords among the resume's, n all
\* of them
ScoreOverAllKeywords(score, job_description) ==
    LET keywords  == SubSeq(JobKeywords(job_description), 1,
                            Len(JobKeywords(job_description)))
        in_resume == ResumeKeywords
        m         == Len(SelectSeq(keywords, LAMBDA k : k \in in_resume))
    IN  keywords # <<>> => NearestPercent(score, m, Len(keywords))

\* C19: the keyword-match score is 100*|matched|/|jd_keywords| rounded to
\* the nearest integer, computed over all job-description keywords before
\* the matched and missing lists are truncated; for a non-empty keyword set
\* it is 100 exactly when no job-description keyword is missing and 0
\* exactly when none is matched.
C19_ScoreBeforeTruncation ==
    /\ frame.done => ScoreOverAllKeywords(frame.value.keyword_score, frame.job_description)
    /\ report.done =>
          ScoreOverAllKeywords(report.value.breakdown.keyword_match, report.job_description)

\* all 22 keywords are matched: the score is 100 though the list holds 20
C19_Witness ==
    /\ frame.done
    /\ Len(JobKeywords(frame.job_description)) = 22
    /\ Len(frame.value.matched_kw) = 20
    /\ frame.value.missing_kw = <<>>
    /\ frame.value.keyword_score = 100

\* none of 22 keywords is matched: the score is 0
C19_WitnessNone ==
    /\ frame.done
    /\ Len(JobKeywords(frame.job_description)) = 22
    /\ frame.value.matched_kw = <<>>
    /\ Len(frame.value.missing_kw) = 20
    /\ frame.value.keyword_score = 0

\* one of three keywords is matched: 33
C19_WitnessRounded ==
    /\ frame.done
    /\ Len(JobKeywords(frame.job_description)) = 3
    /\ Len(frame.value.matched_kw) = 1
    /\ frame.value.keyword_score = 33

\* C27: the keyword density of analyze has an entry for exactly the keywords
\* of the job description that the resume has, those beyond the twentieth of
\* the matched list included, and for none of the missing ones; every entry
\* has jd_count >= 1, resume_count >= 1 and match_ratio =
\* min(resume_count / jd_count, 1), which is above 0, at most 1, and 1
\* whenever resume_count >= jd_count.
C27_DensityOfMatched ==
    frame.done =>
        LET density  == frame.value.density
            keywords == Elements(JobKeywords(frame.job_description))
        IN  /\ dict_keys(density) = {w \in keywords : w \in ResumeKeywords}
            /\ Cardinality(dict_keys(density)) = Len(density)
            /\ \A i \in DOMAIN frame.value.matched_kw :
                  frame.value.matched_kw[i] \in dict_keys(density)
            /\ \A i \in DOMAIN frame.value.missing_kw :
                  frame.value.missing_kw[i] \notin dict_keys(density)
            /\ \A k \in DOMAIN density :
                  LET entry == density[k][2]
                      ratio == entry.match_ratio
                  IN  /\ entry.jd_count >= 1
                      /\ entry.resume_count >= 1
                      /\ ratio[2] > 0
                      /\ ratio[1] * entry.jd_count
                            = Min(entry.resume_count, entry.jd_count) * ratio[2]
                      /\ 0 < ratio[1]
                      /\ ratio[1] <= ratio[2]
                      /\ entry.resume_count >= entry.jd_count => ratio[1] = ratio[2]

\* 22 matched keywords: 20 are listed, all 22 have a density entry
C27_Witness ==
    /\ frame.done
    /\ Len(frame.value.matched_kw) = 20
    /\ Len(frame.value.density) = 22

\* a keyword named twice in the job description and three times in the
\* resume: the ratio is capped at 1; beside it two missing keywords
C27_WitnessCapped ==
    /\ frame.done
    /\ Len(frame.value.missing_kw) = 2
    /\ \E k \in DOMAIN frame.value.density :
          /\ frame.value.density[k][2].jd_count = 2
          /\ frame.value.density[k][2].resume_count = 3
          /\ frame.value.density[k][2].match_ratio = <<1, 1>>

\* named twice in the job description and once in the resume: one half
C27_WitnessHalf ==
    /\ frame.done
    /\ \E k \in DOMAIN frame.value.density :
          frame.value.density[k][2].match_ratio = <<1, 2>>

\* C29: for a job description without a keyword the suggestions of analyze
\* start with the Keywords suggestion of severity high that reports 0% and
\* names no keyword, so they never hold the General suggestion; the General
\* suggestion is given only when keyword_score >= 80, the Skills condition
\* (skill_score < 70 with a missing skill) is false and there is no format
\* issue.
C29_NoKeywordsNoPraise ==
    frame.done =>
        LET suggestions == frame.value.suggestions
            general     == OfCategory(suggestions, "General")
        IN  /\ JobKeywords(frame.job_description) = <<>> =>
                  /\ suggestions # <<>>
                  /\ suggestions[1] = Suggestion("Keywords", "high",
                                                 OnlyPrefix \o <<"0">> \o OnlySuffix,
                                                 FocusPrefix)
                  /\ general = <<>>
            /\ general # <<>> =>
                  /\ frame.value.keyword_score >= 80
                  /\ ~(frame.value.skill_score < 70 /\ frame.value.missing_skills # <<>>)
                  /\ frame.value.format_issues = <<>>

\* the empty job description for a resume with nothing to reproach in its
\* format: the Keywords suggestion alone
C29_Witness ==
    /\ frame.done
    /\ frame.job_description = EmptyText
    /\ frame.value.format_issues = <<>>
    /\ Len(frame.value.suggestions) = 1
    /\ frame.value.suggestions[1].category = "Keywords"

\* a job description of stop words and short words only
C29_WitnessStopWords ==
    /\ frame.done
    /\ frame.job_description # EmptyText
    /\ JobKeywords(frame.job_description) = <<>>
    /\ frame.value.suggestions[1].severity = "high"

\* the General suggestion is given
C29_WitnessGeneral ==
    /\ frame.done
    /\ frame.value.suggestions = <<GeneralSuggestion>>
    /\ frame.value.keyword_score >= 80

\* the content of a resume row: everything but the cached score and its time
Content(resume) == [resume EXCEPT !.ats_score = 0, !.last_ats_check = 0]

-----------------------------------------------------------------------------
(* SpecParallel: two requests of the view ats_analyze for the same resume  *)
(* with different job descriptions, served at the same time. Each request  *)
(* loads the resume, computes the scores, creates the ATSAnalysis row and  *)
(* saves its resume object; no transaction or lock is taken, so the steps  *)
(* of the two interleave freely. args[p] is the job description of request *)
(* p, frame[p] its local variables and ret[p] what analyze() returned.     *)

Procs == {1, 2}

InitParallel ==
    /\ Resume \in Resumes
    /\ ATSAnalysis = <<>>
    /\ request = EmptyText
    /\ report = NoCall
    /\ clock = 1
    /\ args \in {a \in [Procs -> JobDescriptions] : Len(a[1]) < Len(a[2])}
    /\ frame = [p \in Procs |-> [pc |-> "load"]]
    /\ ret = [p \in Procs |-> NoCall]

\* resume = get_object_or_404(Resume, pk=pk, user=request.user)
Load(p) ==
    /\ frame[p].pc = "load"
    /\ frame' = [frame EXCEPT ![p] = [pc |-> "compute", resume |-> Resume]]
    /\ UNCHANGED <<Resume, ATSAnalysis, request, report, clock, args, ret>>

\* ATSAnalyzer(resume, job_description) and the four computations, the
\* weighted score and the suggestions of analyze()
Compute(p) ==
    /\ frame[p].pc = "compute"
    /\ LET self == ATSAnalyzer(frame[p].resume, args[p])
       IN  \E required_skills \in extract_required_skills(self.job_description) :
              frame' = [frame EXCEPT ![p] = [pc     |-> "create",
                                             resume |-> frame[p].resume,
                                             self   |-> self,
                                             locals |-> scores(self, required_skills)]]
    /\ UNCHANGED <<Resume, ATSAnalysis, request, report, clock, args, ret>>

\* analysis = ATSAnalysis.objects.create(...)
Create(p) ==
    /\ frame[p].pc = "create"
    /\ LET analysis == new_analysis(frame[p].self, frame[p].locals,
                                    Len(ATSAnalysis) + 1, clock)
       IN  /\ ATSAnalysis' = Append(ATSAnalysis, analysis)
           /\ frame' = [frame EXCEPT ![p] = [pc       |-> "save",
                                             resume   |-> frame[p].resume,
                                             locals   |-> frame[p].locals,
                                             analysis |-> analysis]]
    /\ clock' = clock + 1
    /\ UNCHANGED <<Resume, request, report, args, ret>>

\* the two assignments, self.resume.save() and return analysis: save()
\* writes every field of the object the request loaded
Save(p) ==
    /\ frame[p].pc = "save"
    /\ Resume' = saved_resume(frame[p].resume, frame[p].locals.overall_score, clock)
    /\ ret' = [ret EXCEPT ![p] = Returned(frame[p].analysis)]
    /\ frame' = [frame EXCEPT ![p] = [pc |-> "done"]]
    /\ clock' = clock + 1
    /\ UNCHANGED <<ATSAnalysis, request, report, args>>

NextParallel ==
    \E p \in Procs : Load(p) \/ Compute(p) \/ Create(p) \/ Save(p)

SpecParallel == InitParallel /\ [][NextParallel]_vars

AllDone == \A p \in Procs : frame[p].pc = "done"

\* what request p returned is, but for the row's id and time, a row that
\* analyze() returns when it is the only call on the resume
ReturnsAsAlone(p) ==
    LET self == ATSAnalyzer(Resume, args[p])
    IN  \E required_skills \in extract_required_skills(self.job_description) :
           Computed(ret[p].value)
              = Computed(new_analysis(self, scores(self, required_skills), 0, 0))

\* the stored state is the one the calls leave when run one after the other
\* in this order: their rows in this order, and the score of the last one
\* in the resume
LikeSequential(order) ==
    /\ Len(ATSAnalysis) = Len(order)
    /\ \A i \in DOMAIN order : ATSAnalysis[i] = ret[order[i]].value
    /\ Resume.ats_score = ret[order[Len(order)]].value.score

\* C18: for every interleaving of the steps (compute, create analysis
\* record, save resume) of two analyze calls on the same resume with
\* different job descriptions, each call returns the result it returns when
\* run alone, and the final stored state (the analysis records and the
\* resume's cached score) is one that some sequential order of the two
\* calls produces.
C18_Serializable ==
    AllDone =>
       /\ \A p \in Procs : ReturnsAsAlone(p)
       /\ \E order \in {<<1, 2>>, <<2, 1>>} : LikeSequential(order)

\* the half of C18 that holds: each call returns what it returns alone,
\* both rows are stored and the resume's content is as it was
C18_ReturnsAsAlone ==
    AllDone =>
       /\ \A p \in Procs : ReturnsAsAlone(p)
       /\ Len(ATSAnalysis) = 2
       /\ \E p \in Procs : Resume.ats_score = ret[p].value.score
       /\ Content(Resume) \in {Content(resume) : resume \in Resumes}

\* C30: once no analyze call on a resume is in progress, whether or not the
\* create-record and save-resume steps of the calls overlapped, the resume
\* has as many stored ATSAnalysis records as calls were completed, and its
\* ats_score is the score of the record created last and lies in 0..100.
C30_ScoreOfLatestRecord ==
    AllDone =>
       /\ Len(ATSAnalysis) = Cardinality(Procs)
       /\ Resume.ats_score = ATSAnalysis[Len(ATSAnalysis)].score
       /\ Resume.ats_score \in 0..100

\* the half of C30 that holds: one record for each completed call, the
\* records in the order of their creation, and a cached score within 0..100
\* that is the score of one of them
C30_RecordsCounted ==
    AllDone =>
       /\ Len(ATSAnalysis) = Cardinality(Procs)
       /\ \A i \in DOMAIN ATSAnalysis : ATSAnalysis[i].id = i
       /\ \A i \in 1..(Len(ATSAnalysis) - 1) :
             ATSAnalysis[i].created_at < ATSAnalysis[i + 1].created_at
       /\ Resume.ats_score \in 0..100
       /\ \E i \in DOMAIN ATSAnalysis : Resume.ats_score = ATSAnalysis[i].score

=============================================================================
